---- MODULE Spec2Model ----
(***************************************************************************)
(* Pipeline execution engine (BasePipeline.processRows / insertRow) and    *)
(* the orchestrator that drives it (Orchestrator.processPipeline /         *)
(* processFile), with the PostgreSQL transaction and the S3 source         *)
(* location they act on.                                                   *)
(*                                                                         *)
(* A bucket holds the objects of every pipeline under its source path, with *)
(* the processed/ and logs/ folders below it.  A call of processPipeline   *)
(* checks the configuration, ensures the folders, lists the source path    *)
(* and processes each listed file: fetch and parse, connect, BEGIN,        *)
(* optional TRUNCATE, one savepoint-protected INSERT per valid row,        *)
(* postProcess, COMMIT or ROLLBACK, then the two audit CSVs and the source *)
(* deletion.  processAllPipelines calls it for each registered pipeline.   *)
(* The three statements insertRow awaits for a row are steps of their own. *)
(* S3, the pool and the stored procedure may fail, MaxFaults times in all. *)
(*                                                                         *)
(* Spec starts from one configured pipeline with one file; SpecAll from    *)
(* two configured pipelines and several objects; SpecLog from files with a *)
(* second column; SpecBatch from every configured batch size.              *)
(*                                                                         *)
(* SpecClasses runs the rows of the two pipeline classes (orders and       *)
(* product-catalog) through normalizeRow, mapRow, validateRow and the      *)
(* INSERT values; SpecRegistry loads the pipeline registry from a scan of  *)
(* the pipelines folder and enumerates it; SpecCsv writes cell texts with  *)
(* objectToCSV and normalizes header names; SpecShutdown adds the signal   *)
(* handler of index.js (pool.end() followed by process.exit) to Spec;      *)
(* SpecTx lets COMMIT and ROLLBACK fail; SpecLoop runs the batch loop of   *)
(* processRows for every BATCH_SIZE text, under weak fairness; SpecLegacy  *)
(* runs the rows of an orders file through the legacy CSVprocessor.        *)
(***************************************************************************)
EXTENDS Integers, Sequences, FiniteSets, TLC

\* ------------------------------------------------------------------ bounds
MaxRows == 2    \* data rows of the source file
MaxKey  == 2    \* distinct key values a row can carry
MaxRuns == 2    \* calls of processPipeline
MaxFaults == 1  \* failures of the environment (S3, pool, stored procedure)
MaxText == 3    \* characters of a cell text handed to the CSV writer

\* --------------------------------------------------------------- constants
DefaultBatchSize == 100

Pipelines == {"orders", "product-catalog"}

\* Object.keys of the registry: the order in which the folders were scanned
RegisteredPipelines == <<"orders", "product-catalog">>

\* The empty text of a CSV cell; mapRow turns it into null.  Undefined is
\* the value of a property an object does not have.
NoKey     == 0
Null      == -1
Undefined == -2
Keys      == 1..MaxKey

\* Header of the key column as the upstream system writes it, and the
\* property under which mapRow looks for it.
RawKeyHeader == <<"K", "e", "y", " ", "I", "d">>
KeyProperty  == <<"k", "e", "y", "i", "d">>

DbErrorMessage          == "db: insert rejected"
MapErrorMessage         == "mapRow raised"
ValidateErrorMessage    == "validateRow raised"
PostProcessErrorMessage == "postProcess raised"
FetchErrorMessage       == "File not found in S3"
ParseErrorMessage       == "parseCSV rejected"
ConnectErrorMessage     == "timeout exceeded when trying to connect"
FolderErrorMessage      == "ensureFolderExists raised"
ListErrorMessage        == "listFiles raised"

(***************************************************************************)
(* A SourceRecord.  key is the text of the pipeline's key column (NoKey is *)
(* the empty cell).  fault names the step that raises for this row:        *)
(*   "db"       the database rejects its INSERT (constraint or type error) *)
(*   "map"      the pipeline's mapRow raises                               *)
(*   "validate" mapRow returns no object, so validateRow raises            *)
(***************************************************************************)
SourceRecord(k, f) == [cells |-> <<<<RawKeyHeader, k>>>>, fault |-> f]

SourceRecords ==
    {SourceRecord(k, "none") : k \in {NoKey} \cup Keys}
        \cup {SourceRecord(1, f) : f \in {"db", "map", "validate"}}

SeqsUpTo(S, n) == UNION {[1..k -> S] : k \in 0..n}

Min(a, b) == IF a < b THEN a ELSE b

Last(s) == s[Len(s)]

\* ------------------------------------------------- the pipeline definition
\* mutant: the pipeline does not ask for a truncate
shouldTruncate_never(p) == FALSE

shouldTruncate(p) == p = "orders"

\* mutant: the insert statement has no conflict clause
OnConflictDoNothing_never(p) == FALSE

\* buildInsertQuery: does the statement carry ON CONFLICT ... DO NOTHING
OnConflictDoNothing(p) == p = "product-catalog"

\* postProcess issues a statement of its own (CALL merge_orders_stage())
PostProcessCalls(p) == p = "orders"

\* mutant: the pipeline declares no required field
requiredFields_none == <<>>

requiredFields == <<"key">>

\* An object is the sequence of its <<property, value>> entries in insertion
\* order.
HasProperty(obj, k) == \E n \in 1..Len(obj) : obj[n][1] = k

Get(obj, k) ==
    IF HasProperty(obj, k)
    THEN obj[CHOOSE n \in 1..Len(obj) : obj[n][1] = k][2]
    ELSE Undefined

Put(obj, k, v) ==
    IF HasProperty(obj, k)
    THEN [n \in 1..Len(obj) |-> IF obj[n][1] = k THEN <<k, v>> ELSE obj[n]]
    ELSE Append(obj, <<k, v>>)

UpperCase == <<"A", "B", "C", "D", "E", "F", "G", "H", "I", "J", "K", "L", "M",
               "N", "O", "P", "Q", "R", "S", "T", "U", "V", "W", "X", "Y", "Z">>
LowerCase == <<"a", "b", "c", "d", "e", "f", "g", "h", "i", "j", "k", "l", "m",
               "n", "o", "p", "q", "r", "s", "t", "u", "v", "w", "x", "y", "z">>
Digits    == {"0", "1", "2", "3", "4", "5", "6", "7", "8", "9"}

toLowerCase(ch) ==
    IF \E n \in 1..Len(UpperCase) : UpperCase[n] = ch
    THEN LowerCase[CHOOSE n \in 1..Len(UpperCase) : UpperCase[n] = ch]
    ELSE ch

IsAlphanumeric(ch) ==
    ch \in Digits \/ \E n \in 1..Len(LowerCase) : LowerCase[n] = ch

\* mutant: the key is not lower-cased before it is stripped
normalizeKey_caseKept(key) == SelectSeq(key, IsAlphanumeric)

\* key.toLowerCase().trim().replace(/[^a-z0-9]/g, '')
normalizeKey(key) ==
    SelectSeq([n \in 1..Len(key) |-> toLowerCase(key[n])], IsAlphanumeric)

RECURSIVE normalizeEntries(_, _)
normalizeEntries(entries, normalized) ==
    IF entries = <<>> THEN normalized
    ELSE normalizeEntries(Tail(entries),
                          Put(normalized, normalizeKey(Head(entries)[1]),
                              Head(entries)[2]))

normalizeRow(row) ==
    [cells |-> normalizeEntries(row.cells, <<>>), fault |-> row.fault]

\* row.keyid ? Number(row.keyid) : null
mapRow(row) ==
    [key |-> IF Get(row.cells, KeyProperty) \in {NoKey, Undefined}
             THEN Null
             ELSE Get(row.cells, KeyProperty)]

\* mutant: the required-field check reports nothing
validateRow_noCheck(mappedRow) == <<>>

validateRow(mappedRow) ==
    SelectSeq(requiredFields, LAMBDA f : mappedRow[f] = Null)

RECURSIVE Join(_)
Join(fields) ==
    IF fields = <<>> THEN ""
    ELSE IF Len(fields) = 1 THEN fields[1]
    ELSE fields[1] \o ", " \o Join(Tail(fields))

MissingReason(missingFields) ==
    "Missing required fields: " \o Join(missingFields)

\* ------------------------------------------------------------ the database
\* A table is the sequence of its rows in insertion order; run is the run of
\* processPipeline that inserted the row (0: present before the first run).
TableRow(k, r) == [key |-> k, run |-> r]

HasKey(tbl, k) == \E n \in 1..Len(tbl) : tbl[n].key = k

ExecInsert(tbl, k, ignoreConflict, r) ==
    IF ignoreConflict /\ HasKey(tbl, k) THEN tbl
    ELSE Append(tbl, TableRow(k, r))

NoTx == [tx |-> "none", work |-> <<>>, savepoints |-> <<>>]

PriorTables ==
    {<<>>, <<TableRow(1, 0)>>, <<TableRow(MaxKey, 0)>>,
     <<TableRow(1, 0), TableRow(MaxKey, 0)>>}

Stmt(op, n, ok) == [op |-> op, row |-> n, ok |-> ok]

\* ROLLBACK TO SAVEPOINT insert_row: the work done since the savepoint is
\* undone and the transaction is usable again; the savepoint stays defined.
RollbackToSavepoint(c) ==
    [c EXCEPT !.tx = "active", !.work = Last(c.savepoints)]

\* mutant: the TRUNCATE is issued outside the client's transaction
TruncateTarget_autocommit(tbl, c) ==
    [table |-> <<>>, conn |-> [c EXCEPT !.work = <<>>]]

\* truncateTable line 127: TRUNCATE on the client that issued BEGIN
TruncateTarget(tbl, c) == [table |-> tbl, conn |-> [c EXCEPT !.work = <<>>]]

\* COMMIT ends an aborted transaction by rolling it back.
CommitTx(tbl, c) == IF c.tx = "active" THEN c.work ELSE tbl

RollbackTx(tbl, c) == tbl

\* mutant: the catch block of processRows ends the transaction with COMMIT
EndFailedTransaction_commits(tbl, c) == CommitTx(tbl, c)

\* processRows line 333, the catch block's statement
EndFailedTransaction(tbl, c) == RollbackTx(tbl, c)

\* mutant: the catch block of insertRow does not roll back to the savepoint
RecoverFromFailedInsert_noRollbackTo(c) == c

\* insertRow line 197, the catch block's statement
RecoverFromFailedInsert(c) == RollbackToSavepoint(c)

\* --------------------------------------------------------- object storage
\* The value of a path environment variable that is not set (or empty: both
\* are falsy), and the null path buildPipelinePaths returns for it.
Unset  == ""
NoPath == <<>>

\* mutant: the paths are built without looking at the base path
buildPipelinePaths_unchecked(basePath) ==
    [sourcePath    |-> <<basePath>>,
     processedPath |-> <<basePath, "processed">>,
     logsPath      |-> <<basePath, "logs">>]

\* S3Handler.buildPipelinePaths.  A path is the sequence of its folders.
buildPipelinePaths(basePath) ==
    IF basePath = Unset
    THEN [sourcePath |-> NoPath, processedPath |-> NoPath, logsPath |-> NoPath]
    ELSE [sourcePath    |-> <<basePath>>,
          processedPath |-> <<basePath, "processed">>,
          logsPath      |-> <<basePath, "logs">>]

\* An object key: the folders it lies in, the parts of its base name, its
\* extension and the timestamp an upload puts into the name (0: none).
S3Key(path, name, ext, stamp) ==
    [path |-> path, name |-> name, ext |-> ext, stamp |-> stamp]

\* The key that is the folder path itself (ensureFolderExists' placeholder),
\* and, relative to a folder, the empty file name.
FolderKey(path) == S3Key(path, <<>>, "", 0)
NoFile          == FolderKey(<<>>)

SourceFile(name) == S3Key(<<>>, <<name>>, "csv", 0)

FileName == SourceFile("data")

\* key.startsWith(path)
StartsWith(key, path) ==
    /\ Len(key.path) >= Len(path)
    /\ SubSeq(key.path, 1, Len(path)) = path

\* sourcePath + fileName
FileKey(sourcePath, fileName) ==
    [fileName EXCEPT !.path = sourcePath \o @]

\* key.replace(sourcePath, '')
RelativeName(key, sourcePath) ==
    [key EXCEPT !.path = SubSeq(@, Len(sourcePath) + 1, Len(@))]

\* uploadLogFile: logsPath + baseName + "_log_" + timestamp + ".csv"
LogKey(fileName, logsPath, timestamp) ==
    S3Key(logsPath \o fileName.path, fileName.name \o <<"log">>, "csv",
          timestamp)

\* uploadProcessedFile: processedPath + timestamp + "_" + fileName
ProcessedKey(fileName, processedPath, timestamp) ==
    S3Key(processedPath \o fileName.path, fileName.name, fileName.ext,
          timestamp)

\* createRemarkCSV writes ./logs/<prefix>_<fileName>; the only folder it
\* creates is ./logs, so a file name with a folder part cannot be written.
LocalWriteOk(fileName) == fileName.path = <<>>

\* ListObjectsV2 returns keys in the binary order of their text.  For the
\* keys below one source path: the placeholder, the files directly in the
\* folder by name, then logs/ and processed/.
SourceNames == <<"data", "extra", "info">>

NameRank(name) ==
    IF name = <<>> THEN 0
    ELSE CHOOSE n \in 1..Len(SourceNames) : SourceNames[n] = name[1]

FolderRank(path) ==
    IF path = <<>> THEN 0
    ELSE IF path[1] = "logs" THEN 1
    ELSE 2

ListRank(fileName) ==
    FolderRank(fileName.path) * 100 + NameRank(fileName.name) * 10
        + fileName.stamp

RECURSIVE InKeyOrder(_)
InKeyOrder(S) ==
    IF S = {} THEN <<>>
    ELSE LET first == CHOOSE x \in S :
                          \A y \in S : ListRank(x) <= ListRank(y)
         IN  <<first>> \o InKeyOrder(S \ {first})

\* S3Handler.listFiles; the method has two parameters, the third argument
\* processPipeline passes (logsPath) is not used.
listFiles(bkt, sourcePath, processedPath, logsPath) ==
    InKeyOrder({RelativeName(key, sourcePath) :
                key \in {k \in DOMAIN bkt :
                            /\ StartsWith(k, sourcePath)
                            /\ k # FolderKey(sourcePath)
                            /\ ~StartsWith(k, processedPath)
                            /\ k.ext = "csv"}})

\* S3Handler.ensureFolderExists: put an empty placeholder when no key has
\* the prefix.
NoCsv == [header |-> <<>>, lines |-> <<>>]

ensureFolderExists(bkt, folderPath) ==
    IF \E k \in DOMAIN bkt : StartsWith(k, folderPath) THEN bkt
    ELSE [k \in DOMAIN bkt \cup {FolderKey(folderPath)} |->
             IF k \in DOMAIN bkt THEN bkt[k] ELSE NoCsv]

PutObject(bkt, key, body) ==
    [k \in DOMAIN bkt \cup {key} |-> IF k = key THEN body ELSE bkt[k]]

\* mutant: the delete takes every object of the folder with it
DeleteObject_wholeFolder(bkt, key) ==
    [k \in {q \in DOMAIN bkt : q.path # key.path} |-> bkt[k]]

DeleteObject(bkt, key) == [k \in DOMAIN bkt \ {key} |-> bkt[k]]

\* ------------------------------------------------------------------- CSV
\* A CSV text: its header line and its data lines.  A line carries, beside
\* its cell values, the fault its row provokes when it is processed.
CsvLine(values, fault) == [values |-> values, fault |-> fault]

RECURSIVE fromEntries(_, _)
fromEntries(entries, obj) ==
    IF entries = <<>> THEN obj
    ELSE fromEntries(Tail(entries), Put(obj, Head(entries)[1],
                                        Head(entries)[2]))

\* BasePipeline.parseCSV (csv-parser): one object per data line, a property
\* per header column.
parseCSV(body) ==
    [n \in 1..Len(body.lines) |->
        [cells |-> fromEntries(
                     [k \in 1..Min(Len(body.header),
                                   Len(body.lines[n].values)) |->
                         <<body.header[k], body.lines[n].values[k]>>],
                     <<>>),
         fault |-> body.lines[n].fault]]

\* The file the upstream system deposits for the given records.
SourceCsv(header, recs) ==
    [header |-> header,
     lines  |-> [n \in 1..Len(recs) |->
                   CsvLine([k \in 1..Len(recs[n].cells) |->
                               recs[n].cells[k][2]],
                           recs[n].fault)]]

\* ---------------------------------------------------------- the registry
\* src/pipelines/index.js.  An entry of the pipelines folder: its name,
\* whether the name starts with _ or ., and what it is:
\*   "pipeline"  a folder whose module exports a class with pipelineName
\*   "unnamed"   a folder whose module exports a class without pipelineName
\*   "broken"    a folder whose module throws when it is required
\*   "file"      not a directory
Folder(name, hidden, kind) == [name |-> name, hidden |-> hidden, kind |-> kind]

FolderKinds == {"pipeline", "unnamed", "broken", "file"}

\* a value of the registry object: what typeof says, its pipelineName
\* property ("" when it has none), and whether it is a pipeline class
ClassValue(name) ==
    [typeof |-> "function", pipelineName |-> name, class |-> TRUE]
UtilityValue ==
    [typeof |-> "function", pipelineName |-> "", class |-> FALSE]

\* lines 35-65: the folders that pass the filter are required and
\* registered under their pipelineName, in the order of the scan
RECURSIVE RegisterFolders(_, _)
RegisterFolders(entries, registry) ==
    IF entries = <<>> THEN registry
    ELSE LET entry == Head(entries) IN
         IF entry.kind = "file" \/ entry.hidden \/ entry.kind = "broken"
            \/ entry.kind = "unnamed"
         THEN RegisterFolders(Tail(entries), registry)
         ELSE RegisterFolders(Tail(entries),
                              Put(registry, entry.name,
                                  ClassValue(entry.name)))

\* the exported object: the registered classes, then the two utilities of
\* lines 82 and 89
Registry(entries) ==
    Put(Put(RegisterFolders(entries, <<>>), "getPipelineNames", UtilityValue),
        "hasPipeline", UtilityValue)

ObjectKeys(obj) == [n \in 1..Len(obj) |-> obj[n][1]]

\* line 82: k => typeof pipelines[k] !== 'function'
\*                || k === 'getPipelineNames' ? false : true
getPipelineNames(registry) ==
    SelectSeq(ObjectKeys(registry),
              LAMBDA k : IF Get(registry, k).typeof # "function"
                            \/ k = "getPipelineNames"
                         THEN FALSE ELSE TRUE)

\* Orchestrator.getAvailablePipelines, processor.js lines 770-780
getAvailablePipelines(registry) ==
    SelectSeq(ObjectKeys(registry),
              LAMBDA key : Get(registry, key).typeof = "function"
                           /\ Get(registry, key).pipelineName # "")

\* what pipelines[name] evaluates to: the own property, or for a name the
\* object inherits from Object.prototype the inherited value
Lookup(registry, name) ==
    IF HasProperty(registry, name) THEN Get(registry, name)
    ELSE IF name = "__proto__"
         THEN [typeof |-> "object", pipelineName |-> "", class |-> FALSE]
    ELSE IF name = "toString" THEN UtilityValue
    ELSE [typeof |-> "undefined", pipelineName |-> "", class |-> FALSE]

\* line 89: !!pipelines[name] && typeof pipelines[name] !== 'function'
hasPipeline(registry, name) ==
    /\ Lookup(registry, name).typeof # "undefined"
    /\ Lookup(registry, name).typeof # "function"

\* the folders of the deployed service
RegisteredFolders ==
    <<Folder("_template", TRUE, "pipeline"),
      Folder("orders", FALSE, "pipeline"),
      Folder("product-catalog", FALSE, "pipeline")>>

\* nothing has been returned yet
NoValue == [of |-> "", value |-> <<>>]

\* ------------------------------------------------------ pipeline instance
\* BasePipeline constructor, line 36: config.batchSize || 100
constructorBatchSize(configured) ==
    IF configured = 0 THEN DefaultBatchSize ELSE configured

\* mutant: the client is not given back to the pool
release_leaks(n) == n

\* client.release(), line 341
release(n) == n - 1

VARIABLES
    env,            \* per pipeline: value of its source-path variable
    batchSize,      \* BasePipeline.batchSize
    bucket,         \* the S3 bucket: key -> CSV body
    tables,         \* per pipeline: committed content of its target table
    conn,           \* transaction state of the checked-out client
    checkedOut,     \* clients checked out of the pool
    pc,             \* position of the orchestrator / engine
    run,            \* calls of processPipeline so far (the timestamp source)
    pipeline,       \* processPipeline: the pipeline of the current call
    all,            \* processAllPipelines: names still to run, results
    listing,        \* processPipeline: the files listFiles returned
    queue,          \* files of the listing not yet processed
    results,        \* processPipeline: per-file results of this call
    rows,           \* processFile: parsed rows
    i, j,           \* processRows: batch start and index in the batch
    successCount, errorCount,
    validRows, errorRows, missingFieldErrors,
    error,          \* message of the exception being propagated
    stmts,          \* statements issued on the client for the current file
    preTable,       \* table content when the file's BEGIN was issued
    postProcessed,  \* invocations of postProcess for the current file
    s3Calls,        \* S3Handler calls issued during the current call
    faults,         \* failures of the environment so far
    history,        \* one record per finished call of processPipeline
    pipelines,      \* the registry object exported by src/pipelines
    returned,       \* the last value returned to a caller of the module
    shutdown        \* the process: "running", "closing" (shutdown() awaits
                    \* pool.end()), "exited" or "crashed"

vars == <<env, batchSize, bucket, tables, conn, checkedOut, pc, run, pipeline,
          all, listing, queue, results, rows, i, j, successCount, errorCount,
          validRows, errorRows, missingFieldErrors, error, stmts, preTable,
          postProcessed, s3Calls, faults, history, pipelines, returned,
          shutdown>>

config == <<env, batchSize>>
program == <<pipelines, returned, shutdown>>
locals == <<rows, i, j, successCount, errorCount, validRows, errorRows,
            missingFieldErrors>>
file   == <<error, stmts, preTable, postProcessed>>
orch   == <<run, pipeline, all, listing, queue, results, history>>
store  == <<bucket, s3Calls>>

\* the target table of the current pipeline
table == tables[pipeline]

\* Orchestrator.getPipelinePaths
getPipelinePaths(p) == buildPipelinePaths(env[p])

NotRunningAll == [active |-> FALSE, pending |-> <<>>, results |-> <<>>]

\* The state after the services are constructed, for the given environment,
\* bucket content and tables.
Started(p, e, bkt, tbls, configuredBatchSize, registry) ==
    /\ pipeline = p
    /\ env = e
    /\ bucket = bkt
    /\ tables = tbls
    /\ batchSize = constructorBatchSize(configuredBatchSize)
    /\ conn = NoTx
    /\ checkedOut = 0
    /\ pc = "idle"
    /\ run = 0
    /\ all = NotRunningAll
    /\ listing = <<>>
    /\ queue = <<>>
    /\ results = <<>>
    /\ rows = <<>>
    /\ i = 0
    /\ j = 0
    /\ successCount = 0
    /\ errorCount = 0
    /\ validRows = <<>>
    /\ errorRows = <<>>
    /\ missingFieldErrors = <<>>
    /\ error = ""
    /\ stmts = <<>>
    /\ preTable = <<>>
    /\ postProcessed = <<>>
    /\ s3Calls = <<>>
    /\ faults = 0
    /\ history = <<>>
    /\ pipelines = registry
    /\ returned = NoValue
    /\ shutdown = "running"

\* ... with the registry of the deployed service
Start(p, e, bkt, tbls, configuredBatchSize) ==
    Started(p, e, bkt, tbls, configuredBatchSize,
            Registry(RegisteredFolders))

OnlyConfigured(p) == [q \in Pipelines |-> IF q = p THEN q ELSE Unset]

\* One pipeline is configured; its source location holds one file.
Init ==
    \E p \in Pipelines, recs \in SeqsUpTo(SourceRecords, MaxRows),
       prior \in PriorTables :
        Start(p, OnlyConfigured(p),
              FileKey(<<p>>, FileName) :> SourceCsv(<<RawKeyHeader>>, recs),
              [q \in Pipelines |-> IF q = p THEN prior ELSE <<>>],
              DefaultBatchSize)

\* ------------------------------------------------------------ environment
\* An operation of the environment (S3, the pool, a stored procedure) can
\* fail while the failure budget lasts.
EnvOutcomes == IF faults < MaxFaults THEN BOOLEAN ELSE {TRUE}

Fault(ok) == faults' = IF ok THEN faults ELSE faults + 1

\* pool.connect(): a pool on which end() was called hands out no client
ConnectOutcomes == IF shutdown = "closing" THEN {FALSE} ELSE EnvOutcomes

S3Call(op, fileName) == [op |-> op, file |-> fileName]

\* ------------------------------------------------------------ orchestrator
\* processRows was entered and got a client
Attempted(res) ==
    IF res.success THEN ~res.skipped
    ELSE res.error \notin {FetchErrorMessage, ParseErrorMessage,
                           ConnectErrorMessage}

\* mutant: only the files that succeeded are counted as processed
RunRecord_countsSuccessesOnly(p, ress, err) ==
    [pipeline   |-> p,
     processed  |-> Len(SelectSeq(ress, LAMBDA r : r.success)),
     successful |-> Len(SelectSeq(ress, LAMBDA r : r.success)),
     failed     |-> Len(SelectSeq(ress, LAMBDA r : ~r.success)),
     results    |-> ress,
     error      |-> err,
     attempted  |-> \E n \in 1..Len(ress) : Attempted(ress[n]),
     tableLen   |-> Len(tables[p])]

\* The value processPipeline returns (error = ""), or the exception it
\* throws, with the size of the pipeline's table at that moment.
RunRecord(p, ress, err) ==
    [pipeline   |-> p,
     processed  |-> Len(ress),
     successful |-> Len(SelectSeq(ress, LAMBDA r : r.success)),
     failed     |-> Len(SelectSeq(ress, LAMBDA r : ~r.success)),
     results    |-> ress,
     error      |-> err,
     attempted  |-> \E n \in 1..Len(ress) : Attempted(ress[n]),
     tableLen   |-> Len(tables[p])]

\* mutant: a pipeline that throws ends processAllPipelines
ReturnFromPipeline_stopsOnError(record) ==
    /\ history' = Append(history, record)
    /\ IF all.active
       THEN /\ all' = [active  |-> Tail(all.pending) # <<>>
                                     /\ record.error = "",
                       pending |-> Tail(all.pending),
                       results |-> Append(all.results, record)]
            /\ pc' = IF Tail(all.pending) # <<>> /\ record.error = ""
                     THEN "pipeline" ELSE "idle"
       ELSE /\ pc' = "idle"
            /\ UNCHANGED all

\* processPipeline returns or throws.  Under processAllPipelines (lines
\* 720-746) the outcome is stored under the pipeline's name and the loop
\* goes on with the next name.
ReturnFromPipeline(record) ==
    /\ history' = Append(history, record)
    /\ IF all.active
       THEN /\ all' = [active  |-> Tail(all.pending) # <<>>,
                       pending |-> Tail(all.pending),
                       results |-> Append(all.results, record)]
            /\ pc' = IF Tail(all.pending) # <<>> THEN "pipeline" ELSE "idle"
       ELSE /\ pc' = "idle"
            /\ UNCHANGED all

\* mutant: a failed file ends the loop over the listing
RemainingAfter_stopsOnFailure(q, result) ==
    IF result.success THEN Tail(q) ELSE <<>>

\* processPipeline, lines 663-679: after either outcome of a file the for
\* loop goes on with the next file.
RemainingAfter(q, result) == Tail(q)

\* processPipeline, line 663-687: the file loop takes the next file, or the
\* call returns its summary.  The calling action leaves tables unchanged.
FinishFile(result) ==
    /\ results' = Append(results, result)
    /\ queue' = RemainingAfter(queue, result)
    /\ IF RemainingAfter(queue, result) = <<>>
       THEN ReturnFromPipeline(RunRecord(pipeline, Append(results, result),
                                         ""))
       ELSE /\ pc' = "file"
            /\ UNCHANGED <<all, history>>

FailedResult(msg) == [file |-> Head(queue), success |-> FALSE, error |-> msg]

SkippedResult_unflagged ==
    [file |-> Head(queue), success |-> TRUE, rowCount |-> 0,
     successCount |-> 0, errorCount |-> 0, missingFieldErrors |-> <<>>,
     skipped |-> FALSE]

\* processFile lines 479-490: the result for a file without data rows
SkippedResult ==
    [file |-> Head(queue), success |-> TRUE, rowCount |-> 0,
     successCount |-> 0, errorCount |-> 0, missingFieldErrors |-> <<>>,
     skipped |-> TRUE]

SuccessResult ==
    [file |-> Head(queue), success |-> TRUE, rowCount |-> Len(rows),
     successCount |-> successCount, errorCount |-> errorCount,
     skippedCount |-> errorCount, missingFieldErrors |-> missingFieldErrors,
     skipped |-> FALSE]

\* processAllPipelines, lines 699-718: the registered names, in the order of
\* the registry's keys.
StartAll ==
    /\ pc = "idle"
    /\ run + Len(RegisteredPipelines) <= MaxRuns
    /\ all' = [active |-> TRUE, pending |-> RegisteredPipelines,
               results |-> <<>>]
    /\ pc' = "pipeline"
    /\ UNCHANGED program
    /\ UNCHANGED <<config, bucket, tables, conn, checkedOut, run, pipeline,
                   listing, queue, results, locals, file, s3Calls, faults,
                   history>>

\* processPipeline up to the file loop: resolve the paths, make sure the
\* source folder exists, list it.  Called directly for any registered name,
\* or by processAllPipelines for the next name.
StartOutcomes ==
    {"ok"} \cup (IF faults < MaxFaults THEN {"folder failed", "list failed"}
                 ELSE {})

StartRun ==
    /\ pc \in {"idle", "pipeline"}
    /\ run < MaxRuns
    /\ \E p \in Pipelines, outcome \in StartOutcomes :
        /\ pc = "pipeline" => p = Head(all.pending)
        /\ pipeline' = p
        /\ run' = run + 1
        /\ results' = <<>>
        /\ error' = ""
        /\ stmts' = <<>>
        /\ postProcessed' = <<>>
        /\ LET paths == getPipelinePaths(p)
               bkt   == ensureFolderExists(bucket, paths.sourcePath)
               files == listFiles(bkt, paths.sourcePath, paths.processedPath,
                                  paths.logsPath)
           IN
           IF paths.sourcePath = NoPath
           THEN \* lines 626-629
                /\ outcome = "ok"
                /\ ReturnFromPipeline(RunRecord(p, <<>>, ""))
                /\ s3Calls' = <<>>
                /\ listing' = <<>>
                /\ queue' = <<>>
                /\ UNCHANGED <<bucket, faults>>
           ELSE IF outcome = "folder failed"
           THEN \* lines 631-636
                /\ ReturnFromPipeline(RunRecord(p, <<>>, FolderErrorMessage))
                /\ s3Calls' = <<S3Call("ensureFolderExists", NoFile)>>
                /\ listing' = <<>>
                /\ queue' = <<>>
                /\ Fault(FALSE)
                /\ UNCHANGED bucket
           ELSE IF outcome = "list failed"
           THEN \* lines 644-650 and 689-692
                /\ ReturnFromPipeline(RunRecord(p, <<>>, ListErrorMessage))
                /\ s3Calls' = <<S3Call("ensureFolderExists", NoFile),
                                S3Call("listFiles", NoFile)>>
                /\ listing' = <<>>
                /\ queue' = <<>>
                /\ bucket' = bkt
                /\ Fault(FALSE)
           ELSE /\ s3Calls' = <<S3Call("ensureFolderExists", NoFile),
                                S3Call("listFiles", NoFile)>>
                /\ bucket' = bkt
                /\ listing' = files
                /\ queue' = files
                /\ Fault(TRUE)
                /\ IF files = <<>>
                   THEN \* lines 652-655
                        ReturnFromPipeline(RunRecord(p, <<>>, ""))
                   ELSE /\ pc' = "file"
                        /\ UNCHANGED <<all, history>>
    /\ UNCHANGED program
    /\ UNCHANGED <<config, tables, conn, checkedOut, locals, preTable>>

\* mutant: a file without data rows is processed like any other
IsEmptyFile_never(parsed) == FALSE

\* processFile line 480: rows.length === 0
IsEmptyFile(parsed) == Len(parsed) = 0

\* processFile steps 1-4: existence check, fetch, parse, empty-file check.
\* The file can be gone since it was listed, and the stream can break while
\* it is parsed.
FetchOutcomes ==
    {"ok"} \cup (IF faults < MaxFaults THEN {"not found", "unreadable"}
                 ELSE {})

FetchFile ==
    /\ pc = "file"
    /\ queue # <<>>
    /\ error' = ""
    /\ stmts' = <<>>
    /\ postProcessed' = <<>>
    /\ LET fileName == Head(queue)
           key      == FileKey(getPipelinePaths(pipeline).sourcePath, fileName)
       IN
       \E outcome \in FetchOutcomes :
         /\ Fault(outcome = "ok")
         /\ IF outcome = "not found" \/ key \notin DOMAIN bucket
            THEN /\ FinishFile(FailedResult(FetchErrorMessage))
                 /\ s3Calls' = s3Calls \o
                      <<S3Call("ensureFolderExists", NoFile),
                        S3Call("checkFileExists", fileName)>>
                 /\ UNCHANGED rows
            ELSE IF outcome = "unreadable"
            THEN /\ FinishFile(FailedResult(ParseErrorMessage))
                 /\ s3Calls' = s3Calls \o
                      <<S3Call("ensureFolderExists", NoFile),
                        S3Call("checkFileExists", fileName),
                        S3Call("getFile", fileName)>>
                 /\ UNCHANGED rows
            ELSE /\ rows' = parseCSV(bucket[key])
                 /\ s3Calls' = s3Calls \o
                      <<S3Call("ensureFolderExists", NoFile),
                        S3Call("checkFileExists", fileName),
                        S3Call("getFile", fileName)>>
                 /\ IF IsEmptyFile(parseCSV(bucket[key]))
                    THEN FinishFile(SkippedResult)
                    ELSE /\ pc' = "connect"
                         /\ UNCHANGED <<all, queue, results, history>>
    /\ UNCHANGED program
    /\ UNCHANGED <<config, bucket, tables, conn, checkedOut, run, pipeline,
                   listing, i, j, successCount, errorCount, validRows,
                   errorRows, missingFieldErrors, preTable>>

\* ------------------------------------------------------------- processRows
\* lines 216-224: check out a client and issue BEGIN.  connect() is awaited
\* before the try block: when it rejects, processRows throws with nothing
\* acquired and nothing issued.
Begin ==
    /\ pc = "connect"
    /\ i' = 0
    /\ j' = 0
    /\ successCount' = 0
    /\ errorCount' = 0
    /\ validRows' = <<>>
    /\ errorRows' = <<>>
    /\ missingFieldErrors' = <<>>
    /\ postProcessed' = <<>>
    /\ \E acquired \in ConnectOutcomes :
         /\ Fault(acquired \/ shutdown = "closing")
         /\ IF acquired
            THEN /\ checkedOut' = checkedOut + 1
                 /\ conn' = [tx |-> "active", work |-> table,
                             savepoints |-> <<>>]
                 /\ stmts' = <<Stmt("BEGIN", 0, TRUE)>>
                 /\ preTable' = table
                 /\ error' = ""
                 /\ pc' = IF shouldTruncate(pipeline) THEN "truncate"
                          ELSE "row"
                 /\ UNCHANGED <<all, queue, results, history>>
            ELSE /\ error' = ConnectErrorMessage
                 /\ FinishFile(FailedResult(ConnectErrorMessage))
                 /\ UNCHANGED <<checkedOut, conn, stmts, preTable>>
    /\ UNCHANGED program
    /\ UNCHANGED <<config, bucket, tables, run, pipeline, listing, rows,
                   s3Calls>>

\* lines 227-229 and truncateTable.
Truncate ==
    /\ pc = "truncate"
    /\ tables' = [tables EXCEPT
                    ![pipeline] = TruncateTarget(table, conn).table]
    /\ conn' = TruncateTarget(table, conn).conn
    /\ stmts' = Append(stmts, Stmt("TRUNCATE", 0, TRUE))
    /\ pc' = "row"
    /\ UNCHANGED program
    /\ UNCHANGED <<config, bucket, checkedOut, run, pipeline, all, listing,
                   queue, results, locals, error, preTable, postProcessed,
                   s3Calls, faults, history>>

\* mutant: the batch is walked from its end
RowNumber_fromEnd == Len(rows) - (i + j)

\* line 237: const rowNumber = i + j + 1
RowNumber == i + j + 1

\* mutant: the last row of a batch is left out
BatchLen_short == Min(batchSize, Len(rows) - i) - 1

\* rows.slice(i, i + batchSize).length
BatchLen == Min(batchSize, Len(rows) - i)

\* mutant: the row loop is followed by COMMIT
AfterLoop_skipsPostProcess == "commit"

\* line 321: what follows the batch loop
AfterLoop == "post"

\* The two for loops of lines 232-235 after the body of row (i, j).
Advance ==
    IF j + 1 < BatchLen
    THEN /\ j' = j + 1
         /\ i' = i
         /\ pc' = "row"
    ELSE /\ j' = 0
         /\ i' = i + batchSize
         /\ pc' = IF i + batchSize < Len(rows) THEN "row" ELSE AfterLoop

ReasonProperty        == <<"r", "e", "a", "s", "o", "n">>
MissingFieldsProperty == <<"m", "i", "s", "s", "i", "n", "g", "F", "i", "e",
                           "l", "d", "s">>
EtlStatusProperty     == <<"e", "t", "l", "_", "s", "t", "a", "t", "u", "s">>
EtlReasonProperty     == <<"e", "t", "l", "_", "r", "e", "a", "s", "o", "n">>

\* { ...row, reason, missingFields }: cells is the object, with the two
\* properties written over a column of the same name or appended; row,
\* reason and missingFields tell what it was built from.
ErrorDetail(row, reason, missingFields) ==
    [row |-> row, reason |-> reason, missingFields |-> missingFields,
     cells |-> Put(Put(row.cells, ReasonProperty, reason),
                   MissingFieldsProperty, missingFields),
     fault |-> row.fault]

\* mutant: a refused row is stored without being counted
RecordError_uncounted(detail) ==
    /\ missingFieldErrors' = Append(missingFieldErrors, detail)
    /\ errorRows' = Append(errorRows, detail)
    /\ UNCHANGED <<errorCount, successCount, validRows>>

RecordError(detail) ==
    /\ errorCount' = errorCount + 1
    /\ missingFieldErrors' = Append(missingFieldErrors, detail)
    /\ errorRows' = Append(errorRows, detail)
    /\ UNCHANGED <<successCount, validRows>>

\* lines 236-264 and insertRow up to its first await: normalize, map,
\* validate, and for a valid row issue SAVEPOINT insert_row.
RowStart ==
    /\ pc = "row"
    /\ LET row == rows[RowNumber] IN
       IF row.fault = "map"
       THEN \* mapRow is called outside the row's try block (line 240)
            /\ error' = MapErrorMessage
            /\ pc' = "rollback"
            /\ UNCHANGED <<i, j, successCount, errorCount, validRows,
                           errorRows, missingFieldErrors, conn, stmts>>
       ELSE IF row.fault = "validate"
       THEN \* caught by the row's catch, lines 291-307
            /\ RecordError(ErrorDetail(row, ValidateErrorMessage, <<>>))
            /\ Advance
            /\ UNCHANGED <<error, conn, stmts>>
       ELSE LET missingFields == validateRow(mapRow(normalizeRow(row))) IN
            IF Len(missingFields) > 0
            THEN /\ RecordError(ErrorDetail(row, MissingReason(missingFields),
                                            missingFields))
                 /\ Advance
                 /\ UNCHANGED <<error, conn, stmts>>
            ELSE /\ conn' = [conn EXCEPT
                               !.savepoints = Append(@, conn.work)]
                 /\ stmts' = Append(stmts, Stmt("SAVEPOINT", RowNumber, TRUE))
                 /\ pc' = "insert"
                 /\ UNCHANGED <<i, j, successCount, errorCount, validRows,
                                errorRows, missingFieldErrors, error>>
    /\ UNCHANGED program
    /\ UNCHANGED <<config, store, tables, checkedOut, orch, rows, preTable,
                   postProcessed, faults>>

\* insertRow line 192: the INSERT statement.  A failed statement leaves the
\* transaction aborted until a rollback, and every statement issued in an
\* aborted transaction fails.
InsertStmt ==
    /\ pc = "insert"
    /\ LET row == rows[RowNumber] IN
       IF row.fault = "db" \/ conn.tx # "active"
       THEN /\ conn' = [conn EXCEPT !.tx = "aborted"]
            /\ stmts' = Append(stmts, Stmt("INSERT", RowNumber, FALSE))
       ELSE /\ conn' = [conn EXCEPT !.work =
                          ExecInsert(@, mapRow(normalizeRow(row)).key,
                                     OnConflictDoNothing(pipeline), run)]
            /\ stmts' = Append(stmts, Stmt("INSERT", RowNumber, TRUE))
    /\ pc' = "finish"
    /\ UNCHANGED program
    /\ UNCHANGED <<config, store, tables, checkedOut, orch, locals, error,
                   preTable, postProcessed, faults>>

\* insertRow lines 193-205 and processRows lines 266-289: RELEASE SAVEPOINT
\* after a successful insert, ROLLBACK TO SAVEPOINT after a failed one (the
\* savepoint itself stays defined after ROLLBACK TO).
RowFinish ==
    /\ pc = "finish"
    /\ LET row == rows[RowNumber] IN
       IF Last(stmts).ok
       THEN /\ conn' = [conn EXCEPT
                          !.savepoints = SubSeq(@, 1, Len(@) - 1)]
            /\ stmts' = Append(stmts, Stmt("RELEASE", RowNumber, TRUE))
            /\ validRows' = Append(validRows, row)
            /\ successCount' = successCount + 1
            /\ UNCHANGED <<errorCount, errorRows, missingFieldErrors>>
       ELSE /\ conn' = RecoverFromFailedInsert(conn)
            /\ stmts' = Append(stmts, Stmt("ROLLBACK TO", RowNumber, TRUE))
            /\ RecordError(ErrorDetail(row, DbErrorMessage, <<>>))
    /\ Advance
    /\ UNCHANGED program
    /\ UNCHANGED <<config, store, tables, checkedOut, orch, rows, error,
                   preTable, postProcessed, faults>>

\* line 321: postProcess.  Only a pipeline whose hook issues a statement can
\* fail: either the statement fails, which aborts the transaction, or the
\* hook raises after its statement has succeeded.
PostOutcomes ==
    {"ok"} \cup (IF faults < MaxFaults /\ PostProcessCalls(pipeline)
                 THEN {"statement failed", "hook raised"} ELSE {})

PostProcess ==
    /\ pc = "post"
    /\ \E outcome \in PostOutcomes :
         /\ postProcessed' =
              Append(postProcessed,
                     [after    |-> Len(stmts),
                      rowsDone |-> successCount + errorCount,
                      raised   |-> outcome # "ok"])
         /\ Fault(outcome = "ok")
         /\ IF outcome = "ok"
            THEN /\ stmts' = IF PostProcessCalls(pipeline)
                             THEN Append(stmts, Stmt("CALL", 0, TRUE))
                             ELSE stmts
                 /\ pc' = "commit"
                 /\ UNCHANGED <<conn, error>>
            ELSE /\ stmts' = Append(stmts, Stmt("CALL", 0,
                                                outcome = "hook raised"))
                 /\ conn' = IF outcome = "statement failed"
                            THEN [conn EXCEPT !.tx = "aborted"]
                            ELSE conn
                 /\ error' = PostProcessErrorMessage
                 /\ pc' = "rollback"
    /\ UNCHANGED program
    /\ UNCHANGED <<config, store, tables, checkedOut, orch, locals,
                   preTable>>

\* lines 323, 341, 344: COMMIT (which ends an aborted transaction by rolling
\* it back), release the client, return to processFile.
Commit ==
    /\ pc = "commit"
    /\ tables' = [tables EXCEPT ![pipeline] = CommitTx(table, conn)]
    /\ conn' = NoTx
    /\ stmts' = Append(stmts, Stmt("COMMIT", 0, TRUE))
    /\ checkedOut' = release(checkedOut)
    /\ pc' = "upValid"
    /\ UNCHANGED program
    /\ UNCHANGED <<config, store, orch, locals, error, preTable,
                   postProcessed, faults>>

\* lines 332-342, processFile lines 583-592, processPipeline lines 674-678:
\* ROLLBACK, release the client, rethrow; the orchestrator records the file
\* as failed.
Rollback ==
    /\ pc = "rollback"
    /\ tables' = [tables EXCEPT
                    ![pipeline] = EndFailedTransaction(table, conn)]
    /\ conn' = NoTx
    /\ stmts' = Append(stmts, Stmt("ROLLBACK", 0, TRUE))
    /\ checkedOut' = release(checkedOut)
    /\ FinishFile(FailedResult(error))
    /\ UNCHANGED program
    /\ UNCHANGED <<config, store, run, pipeline, listing, locals, error,
                   preTable, postProcessed, faults>>

\* ------------------------------------------------------ processFile, audit
\* Object.keys(data[0]) as the header line, Object.values(row) as each data
\* line; a cell is an atom here, so quoting leaves it as it is.
objectToCSV(data) ==
    IF Len(data) = 0 THEN NoCsv
    ELSE [header |-> [k \in 1..Len(data[1].cells) |-> data[1].cells[k][1]],
          lines  |-> [n \in 1..Len(data) |->
                        CsvLine([k \in 1..Len(data[n].cells) |->
                                    data[n].cells[k][2]],
                                data[n].fault)]]

\* processFile step 6, lines 507-519.
UploadValid ==
    /\ pc = "upValid"
    /\ LET fileName == Head(queue)
           key == ProcessedKey(fileName,
                               getPipelinePaths(pipeline).processedPath, run)
       IN
       IF Len(validRows) > 0 /\ LocalWriteOk(fileName)
       THEN \E ok \in EnvOutcomes :
              /\ Fault(ok)
              /\ bucket' = IF ok
                           THEN PutObject(bucket, key, objectToCSV(validRows))
                           ELSE bucket
              /\ s3Calls' = Append(s3Calls,
                                   S3Call("uploadProcessedFile", fileName))
       ELSE UNCHANGED <<bucket, s3Calls, faults>>
    /\ pc' = "upLog"
    /\ UNCHANGED program
    /\ UNCHANGED <<config, tables, conn, checkedOut, orch, locals, file>>

\* validRows.map(row => ({ ...row, etl_status, etl_reason, missingFields }))
validRowsWithStatus ==
    [n \in 1..Len(validRows) |->
        [cells |-> Put(Put(Put(validRows[n].cells,
                               EtlStatusProperty, "success"),
                           EtlReasonProperty, ""),
                       MissingFieldsProperty, ""),
         fault |-> validRows[n].fault]]

\* const { reason, missingFields, ...rest } = row
Without(obj, k) == SelectSeq(obj, LAMBDA entry : entry[1] # k)

errorRowsWithStatus ==
    [n \in 1..Len(errorRows) |->
        LET reason        == Get(errorRows[n].cells, ReasonProperty)
            missingFields == Get(errorRows[n].cells, MissingFieldsProperty)
            rest == Without(Without(errorRows[n].cells, ReasonProperty),
                            MissingFieldsProperty)
        IN  [cells |-> Put(Put(Put(rest, EtlStatusProperty, "error"),
                               EtlReasonProperty, reason),
                           MissingFieldsProperty, Join(missingFields)),
             fault |-> errorRows[n].fault]]

\* mutant: the log is built from the error rows alone
allRows_errorsOnly == errorRowsWithStatus

allRows == validRowsWithStatus \o errorRowsWithStatus

\* processFile step 7, lines 521-551.
UploadLog ==
    /\ pc = "upLog"
    /\ LET fileName == Head(queue)
           key == LogKey(fileName, getPipelinePaths(pipeline).logsPath, run)
       IN
       IF LocalWriteOk(fileName)
       THEN \E ok \in EnvOutcomes :
              /\ Fault(ok)
              /\ bucket' = IF ok
                           THEN PutObject(bucket, key, objectToCSV(allRows))
                           ELSE bucket
              /\ s3Calls' = Append(s3Calls, S3Call("uploadLogFile", fileName))
       ELSE UNCHANGED <<bucket, s3Calls, faults>>
    /\ pc' = "delete"
    /\ UNCHANGED program
    /\ UNCHANGED <<config, tables, conn, checkedOut, orch, locals, file>>

\* processFile step 8 and the return, lines 553-581.
DeleteSource ==
    /\ pc = "delete"
    /\ LET fileName == Head(queue)
           key == FileKey(getPipelinePaths(pipeline).sourcePath, fileName)
       IN
       \E ok \in EnvOutcomes :
         /\ Fault(ok)
         /\ bucket' = IF ok THEN DeleteObject(bucket, key) ELSE bucket
         /\ s3Calls' = Append(s3Calls, S3Call("deleteFile", fileName))
    /\ FinishFile(SuccessResult)
    /\ UNCHANGED program
    /\ UNCHANGED <<config, tables, conn, checkedOut, run, pipeline, listing,
                   locals, file>>

Next ==
    \/ StartAll
    \/ StartRun
    \/ FetchFile
    \/ Begin
    \/ Truncate
    \/ RowStart
    \/ InsertStmt
    \/ RowFinish
    \/ PostProcess
    \/ Commit
    \/ Rollback
    \/ UploadValid
    \/ UploadLog
    \/ DeleteSource

Spec == Init /\ [][Next]_vars

\* Every pipeline is configured.  The source location of orders holds two
\* CSV files and a text file, that of product-catalog one CSV file.
ShortFiles ==
    SeqsUpTo({SourceRecord(1, "none"), SourceRecord(NoKey, "none"),
              SourceRecord(1, "map")}, 1)

InitAll ==
    \E first \in ShortFiles, second \in ShortFiles :
        Start("orders", [q \in Pipelines |-> q],
              (FileKey(<<"orders">>, FileName)
                   :> SourceCsv(<<RawKeyHeader>>, first))
              @@ (FileKey(<<"orders">>, SourceFile("extra"))
                   :> SourceCsv(<<RawKeyHeader>>, second))
              @@ (FileKey(<<"orders">>, S3Key(<<>>, <<"info">>, "txt", 0))
                   :> NoCsv)
              @@ (FileKey(<<"product-catalog">>, FileName)
                   :> SourceCsv(<<RawKeyHeader>>,
                                <<SourceRecord(MaxKey, "none")>>)),
              [q \in Pipelines |-> <<>>],
              DefaultBatchSize)

SpecAll == InitAll /\ [][Next]_vars

\* The source file has a second column, named as the upstream system likes.
NoteHeader == <<"N", "o", "t", "e">>

SecondHeaders ==
    {NoteHeader, ReasonProperty, MissingFieldsProperty, EtlStatusProperty}

WideRecords(header) ==
    {[cells |-> <<<<RawKeyHeader, rec[1]>>, <<header, "text">>>>,
      fault |-> rec[2]] :
       rec \in {<<1, "none">>, <<NoKey, "none">>, <<MaxKey, "db">>}}

InitLog ==
    \E p \in Pipelines, header \in SecondHeaders :
        \E recs \in SeqsUpTo(WideRecords(header), MaxRows) :
            Start(p, OnlyConfigured(p),
                  FileKey(<<p>>, FileName)
                      :> SourceCsv(<<RawKeyHeader, header>>, recs),
                  [q \in Pipelines |-> <<>>],
                  DefaultBatchSize)

SpecLog == InitLog /\ [][Next]_vars

\* The configured batch size varies: BATCH_SIZE is 0 (the constructor then
\* takes its default) or a small number.
ConfiguredBatchSizes == {0, 1, 2}

InitBatch ==
    \E p \in Pipelines, recs \in SeqsUpTo(SourceRecords, MaxRows),
       configured \in ConfiguredBatchSizes :
        Start(p, OnlyConfigured(p),
              FileKey(<<p>>, FileName) :> SourceCsv(<<RawKeyHeader>>, recs),
              [q \in Pipelines |-> <<>>],
              configured)

SpecBatch == InitBatch /\ [][Next]_vars

\* the CSVs uploaded for the current file
lastProcessed ==
    LET key == ProcessedKey(Head(queue),
                   getPipelinePaths(pipeline).processedPath, run)
    IN  IF queue # <<>> /\ key \in DOMAIN bucket THEN bucket[key] ELSE NoCsv

lastLog ==
    LET key == LogKey(Head(queue), getPipelinePaths(pipeline).logsPath, run)
    IN  IF queue # <<>> /\ key \in DOMAIN bucket THEN bucket[key] ELSE NoCsv

\* ===================================================== pipeline classes
\* The registered pipeline classes, with the texts of their CSV cells and
\* the JavaScript values of their mapped rows spelled out.  A text is the
\* sequence of its characters; a value carries its type.
JsNull       == [type |-> "null", text |-> <<>>, value |-> 0]
JsUndefined  == [type |-> "undefined", text |-> <<>>, value |-> 0]
JsNaN        == [type |-> "NaN", text |-> <<>>, value |-> 0]
JsString(t)  == [type |-> "string", text |-> t, value |-> 0]
JsNumber(n)  == [type |-> "number", text |-> <<>>, value |-> n]

\* ToBoolean
Truthy(v) ==
    \/ v.type = "string" /\ v.text # <<>>
    \/ v.type = "number" /\ v.value # 0

\* row.name: the cell of the parsed row, undefined when there is no such
\* column
Property(row, name) ==
    IF HasProperty(row.cells, name) THEN JsString(Get(row.cells, name))
    ELSE JsUndefined

\* row.name || null
OrNull(v) == IF Truthy(v) THEN v ELSE JsNull

DigitChars == <<"0", "1", "2", "3", "4", "5", "6", "7", "8", "9">>

DigitValue(ch) == (CHOOSE d \in 1..Len(DigitChars) : DigitChars[d] = ch) - 1

RECURSIVE Decimal(_)
Decimal(digits) ==
    IF digits = <<>> THEN 0
    ELSE 10 * Decimal(SubSeq(digits, 1, Len(digits) - 1))
           + DigitValue(digits[Len(digits)])

RECURSIVE TrimStart(_)
TrimStart(t) ==
    IF t # <<>> /\ Head(t) = " " THEN TrimStart(Tail(t)) ELSE t

RECURSIVE TrimEnd(_)
TrimEnd(t) ==
    IF t # <<>> /\ t[Len(t)] = " " THEN TrimEnd(SubSeq(t, 1, Len(t) - 1))
    ELSE t

RECURSIVE LeadingDigits(_)
LeadingDigits(t) ==
    IF t = <<>> \/ Head(t) \notin Digits THEN <<>>
    ELSE <<Head(t)>> \o LeadingDigits(Tail(t))

\* parseInt(text, 10) for texts of digits, letters and blanks: the leading
\* digits after leading blanks, NaN when there is none
parseInt(t) ==
    IF LeadingDigits(TrimStart(t)) = <<>> THEN JsNaN
    ELSE JsNumber(Decimal(LeadingDigits(TrimStart(t))))

\* Number(text) for texts of digits, letters and blanks: 0 for a blank
\* text, NaN unless the trimmed text is all digits
Number(t) ==
    IF TrimEnd(TrimStart(t)) = <<>> THEN JsNumber(0)
    ELSE IF \A n \in 1..Len(TrimEnd(TrimStart(t))) :
                TrimEnd(TrimStart(t))[n] \in Digits
    THEN JsNumber(Decimal(TrimEnd(TrimStart(t))))
    ELSE JsNaN

\* ---- OrdersPipeline
OrdersColumns ==
    <<
      <<"s", "u", "b", "m", "i", "s", "s", "i", "o", "n", "d", "a", "t", "e">>,
      <<"s", "h", "i", "p", "p", "i", "n", "g", "d", "a", "t", "e">>,
      <<"c", "a", "s", "e", "d", "a", "t", "e">>,
      <<"c", "a", "s", "e", "i", "d">>,
      <<"p", "r", "o", "d", "u", "c", "t", "i", "d">>,
      <<"p", "r", "o", "d", "u", "c", "t", "d", "e", "s", "c", "r", "i", "p", "t", "i", "o", "n">>,
      <<"q", "u", "a", "n", "t", "i", "t", "y">>,
      <<"p", "r", "o", "d", "u", "c", "t", "p", "r", "i", "c", "e">>,
      <<"p", "a", "t", "i", "e", "n", "t", "n", "a", "m", "e">>,
      <<"c", "u", "s", "t", "o", "m", "e", "r", "i", "d">>,
      <<"c", "u", "s", "t", "o", "m", "e", "r", "n", "a", "m", "e">>,
      <<"a", "d", "d", "r", "e", "s", "s">>,
      <<"p", "h", "o", "n", "e", "n", "u", "m", "b", "e", "r">>,
      <<"c", "a", "s", "e", "s", "t", "a", "t", "u", "s">>,
      <<"h", "o", "l", "d", "r", "e", "a", "s", "o", "n">>,
      <<"e", "s", "t", "i", "m", "a", "t", "e", "c", "o", "m", "p", "l", "e", "t", "e", "d", "a", "t", "e">>,
      <<"r", "e", "q", "u", "e", "s", "t", "e", "d", "r", "e", "t", "u", "r", "n", "d", "a", "t", "e">>,
      <<"t", "r", "a", "c", "k", "i", "n", "g", "n", "u", "m", "b", "e", "r">>,
      <<"e", "s", "t", "i", "m", "a", "t", "e", "d", "s", "h", "i", "p", "d", "a", "t", "e">>,
      <<"h", "o", "l", "d", "d", "a", "t", "e">>,
      <<"d", "e", "l", "i", "v", "e", "r", "y", "s", "t", "a", "t", "u", "s">>,
      <<"n", "o", "t", "e", "s">>, <<"o", "n", "h", "o", "l", "d">>,
      <<"s", "h", "a", "d", "e">>, <<"m", "o", "l", "d">>,
      <<"d", "o", "c", "t", "o", "r", "p", "r", "e", "f", "e", "r", "e", "n", "c", "e", "s">>,
      <<"p", "r", "o", "d", "u", "c", "t", "p", "r", "e", "f", "e", "r", "e", "n", "c", "e", "s">>,
      <<"c", "o", "m", "m", "e", "n", "t", "s">>,
      <<"c", "a", "s", "e", "t", "o", "t", "a", "l">>>>

SubmissionDateColumn == <<"s", "u", "b", "m", "i", "s", "s", "i", "o", "n", "d", "a", "t", "e">>
CaseDateColumn       == <<"c", "a", "s", "e", "d", "a", "t", "e">>
CaseIdColumn         == <<"c", "a", "s", "e", "i", "d">>
ProductIdColumn      == <<"p", "r", "o", "d", "u", "c", "t", "i", "d">>
QuantityColumn       == <<"q", "u", "a", "n", "t", "i", "t", "y">>
CustomerIdColumn     == <<"c", "u", "s", "t", "o", "m", "e", "r", "i", "d">>

\* mutant: the orders pipeline declares no required field
OrdersPipeline_requiredFields_none == <<>>

OrdersPipeline_requiredFields ==
    <<SubmissionDateColumn, CaseDateColumn, CaseIdColumn, ProductIdColumn,
      QuantityColumn, CustomerIdColumn>>

OrdersPipeline_mapRow(row) ==
    [c \in {OrdersColumns[n] : n \in 1..Len(OrdersColumns)} |->
        IF c = QuantityColumn
        THEN IF Truthy(Property(row, c)) THEN parseInt(Property(row, c).text)
             ELSE JsNull
        ELSE OrNull(Property(row, c))]

\* buildInsertQuery: the parameters of the INSERT that are taken from the
\* mapped row (source_file_key and row_hash are derived from them)
OrdersPipeline_insertValues(mappedRow) ==
    [mappedRow EXCEPT
        ![CaseIdColumn] = IF Truthy(mappedRow[CaseIdColumn])
                          THEN parseInt(mappedRow[CaseIdColumn].text)
                          ELSE JsNull]

\* ---- ProductCatalogPipeline
IncisiveIdProperty   == <<"i", "n", "c", "i", "s", "i", "v", "e", "i", "d">>
IncisiveNameProperty == <<"i", "n", "c", "i", "s", "i", "v", "e", "n", "a", "m", "e">>
CategoryProperty     == <<"c", "a", "t", "e", "g", "o", "r", "y">>
SubCategoryProperty  == <<"s", "u", "b", "c", "a", "t", "e", "g", "o", "r", "y">>
IncisiveIdColumn     == <<"i", "n", "c", "i", "s", "i", "v", "e", "_", "i", "d">>
IncisiveNameColumn   == <<"i", "n", "c", "i", "s", "i", "v", "e", "_", "n", "a", "m", "e">>
SubCategoryColumn    == <<"s", "u", "b", "_", "c", "a", "t", "e", "g", "o", "r", "y">>

ProductCatalogPipeline_requiredFields ==
    <<IncisiveIdColumn, IncisiveNameColumn, CategoryProperty>>

ProductCatalogPipeline_incisiveId(row) ==
    IF Truthy(Property(row, IncisiveIdProperty))
    THEN Number(Property(row, IncisiveIdProperty).text)
    ELSE JsNull

ProductCatalogPipeline_mapRow(row) ==
    (IncisiveIdColumn :>
        (IF ProductCatalogPipeline_incisiveId(row).type = "NaN" THEN JsNull
         ELSE ProductCatalogPipeline_incisiveId(row)))
    @@ (IncisiveNameColumn :> OrNull(Property(row, IncisiveNameProperty)))
    @@ (CategoryProperty :> OrNull(Property(row, CategoryProperty)))
    @@ (SubCategoryColumn :> OrNull(Property(row, SubCategoryProperty)))

ProductCatalogPipeline_insertValues(mappedRow) == mappedRow

\* ---- the class of a registered pipeline
ClassRequiredFields(p) ==
    IF p = "orders" THEN OrdersPipeline_requiredFields
    ELSE ProductCatalogPipeline_requiredFields

ClassMapRow(p, row) ==
    IF p = "orders" THEN OrdersPipeline_mapRow(row)
    ELSE ProductCatalogPipeline_mapRow(row)

ClassInsertValues(p, mappedRow) ==
    IF p = "orders" THEN OrdersPipeline_insertValues(mappedRow)
    ELSE ProductCatalogPipeline_insertValues(mappedRow)

\* BasePipeline.validateRow for a pipeline class: mappedRow[key] is null,
\* undefined or ''
IsMissing(mappedRow, key) ==
    \/ key \notin DOMAIN mappedRow
    \/ mappedRow[key].type \in {"null", "undefined"}
    \/ mappedRow[key].type = "string" /\ mappedRow[key].text = <<>>

ClassValidateRow(p, mappedRow) ==
    SelectSeq(ClassRequiredFields(p), LAMBDA key : IsMissing(mappedRow, key))

\* ---- the files of the two classes
OrdersHeader ==
    <<<<"C", "a", "s", "e", "I", "d">>, <<"P", "r", "o", "d", "u", "c", "t", "I", "d">>,
      <<"Q", "u", "a", "n", "t", "i", "t", "y">>,
      <<"S", "u", "b", "m", "i", "s", "s", "i", "o", "n", "D", "a", "t", "e">>,
      <<"C", "a", "s", "e", "D", "a", "t", "e">>,
      <<"C", "u", "s", "t", "o", "m", "e", "r", "I", "d">>>>

OrdersRecord(caseId, productId, quantity, submitted, caseDate, customerId, f) ==
    [cells |-> <<<<OrdersHeader[1], caseId>>, <<OrdersHeader[2], productId>>,
                 <<OrdersHeader[3], quantity>>,
                 <<OrdersHeader[4], submitted>>,
                 <<OrdersHeader[5], caseDate>>,
                 <<OrdersHeader[6], customerId>>>>,
     fault |-> f]

FirstDay  == <<"2", "0", "2", "4", "-", "0", "1", "-", "0", "1">>
SecondDay == <<"2", "0", "2", "4", "-", "0", "1", "-", "0", "2">>

CaseIdTexts   == {<<>>, <<"1">>, <<"x">>}
QuantityTexts == {<<>>, <<"3">>, <<"0">>, <<"3", "a">>, <<"a">>}

OrdersRecords ==
    {OrdersRecord(c, <<"P", "1">>, q, FirstDay, FirstDay, <<"C", "1">>, f) :
        c \in CaseIdTexts, q \in QuantityTexts, f \in {"none", "db"}}
    \cup {OrdersRecord(<<>>, <<"P", "2">>, <<"1">>, SecondDay, SecondDay,
                       <<"C", "2">>, "none")}

CatalogHeader ==
    <<<<"I", "n", "c", "i", "s", "i", "v", "e", " ", "I", "d">>,
      <<"I", "n", "c", "i", "s", "i", "v", "e", " ", "N", "a", "m", "e">>,
      <<"C", "a", "t", "e", "g", "o", "r", "y">>>>

CatalogRecord(incisiveId, incisiveName, category, fault) ==
    [cells |-> <<<<CatalogHeader[1], incisiveId>>,
                 <<CatalogHeader[2], incisiveName>>,
                 <<CatalogHeader[3], category>>>>,
     fault |-> fault]

IncisiveIdTexts == {<<>>, <<"7">>, <<"0">>, <<"7", "a">>, <<" ">>}

CatalogRecords ==
    {CatalogRecord(k, n, <<"c">>, f) :
        k \in IncisiveIdTexts, n \in {<<>>, <<"n">>}, f \in {"none", "db"}}

ClassRecords(p) == IF p = "orders" THEN OrdersRecords ELSE CatalogRecords

\* The rows of one parsed file are handed to processRows of the pipeline's
\* class.
LoadedWith(p, recs, at, size) ==
    /\ pipeline = p
    /\ rows = recs
    /\ pc = at
    /\ env = [q \in Pipelines |-> q]
    /\ bucket = <<>>
    /\ tables = [q \in Pipelines |-> <<>>]
    /\ batchSize = size
    /\ conn = NoTx
    /\ checkedOut = 0
    /\ run = 1
    /\ all = NotRunningAll
    /\ listing = <<>>
    /\ queue = <<>>
    /\ results = <<>>
    /\ i = 0
    /\ j = 0
    /\ successCount = 0
    /\ errorCount = 0
    /\ validRows = <<>>
    /\ errorRows = <<>>
    /\ missingFieldErrors = <<>>
    /\ error = ""
    /\ stmts = <<>>
    /\ preTable = <<>>
    /\ postProcessed = <<>>
    /\ s3Calls = <<>>
    /\ faults = 0
    /\ history = <<>>
    /\ pipelines = Registry(RegisteredFolders)
    /\ returned = NoValue
    /\ shutdown = "running"

\* ... of an instance with the default batch size
Loaded(p, recs, at) == LoadedWith(p, recs, at, DefaultBatchSize)

InitClasses ==
    \E p \in Pipelines :
      \E recs \in SeqsUpTo(ClassRecords(p), MaxRows) :
        Loaded(p, recs, "classRows")

\* processRows lines 236-307 for one row, with insertRow as one step:
\* normalize, map, validate, insert, count.
ProcessClassRow ==
    /\ pc = "classRows"
    /\ i < Len(rows)
    /\ LET row       == rows[i + 1]
           mappedRow == ClassMapRow(pipeline, normalizeRow(row))
           missingFields == ClassValidateRow(pipeline, mappedRow)
       IN
       IF Len(missingFields) > 0
       THEN /\ errorCount' = errorCount + 1
            /\ errorRows' = Append(errorRows,
                               [row |-> row, reason |-> "missing",
                                missingFields |-> missingFields])
            /\ UNCHANGED <<successCount, validRows, stmts>>
       ELSE /\ stmts' = Append(stmts,
                           [op |-> "INSERT", row |-> i + 1,
                            ok |-> row.fault # "db",
                            values |-> ClassInsertValues(pipeline,
                                                         mappedRow)])
            /\ IF row.fault # "db"
               THEN /\ successCount' = successCount + 1
                    /\ validRows' = Append(validRows, row)
                    /\ UNCHANGED <<errorCount, errorRows>>
               ELSE /\ errorCount' = errorCount + 1
                    /\ errorRows' = Append(errorRows,
                                       [row |-> row,
                                        reason |-> DbErrorMessage,
                                        missingFields |-> <<>>])
                    /\ UNCHANGED <<successCount, validRows>>
    /\ i' = i + 1
    /\ missingFieldErrors' = errorRows'
    /\ UNCHANGED program
    /\ UNCHANGED <<config, store, tables, conn, checkedOut, orch, rows, j, pc,
                   error, preTable, postProcessed, faults>>

\* line 309 onwards: the loop is over
FinishClassRows ==
    /\ pc = "classRows"
    /\ i = Len(rows)
    /\ pc' = "classDone"
    /\ UNCHANGED program
    /\ UNCHANGED <<config, store, tables, conn, checkedOut, orch, locals,
                   file, faults>>

NextClasses == ProcessClassRow \/ FinishClassRows

SpecClasses == InitClasses /\ [][NextClasses]_vars

\* ---- the legacy CSVprocessor (src/services/csvprocessor.js)
\* mapCSVToSchema reads the case id from row.caseId
CaseIdProperty == <<"c", "a", "s", "e", "I", "d">>

\* utils/csv-helpers.js lines 27-59
mapCSVToSchema(row) ==
    [c \in {OrdersColumns[n] : n \in 1..Len(OrdersColumns)} |->
        IF c = CaseIdColumn THEN OrNull(Property(row, CaseIdProperty))
        ELSE IF c = QuantityColumn
        THEN IF Truthy(Property(row, c)) THEN parseInt(Property(row, c).text)
             ELSE JsNull
        ELSE OrNull(Property(row, c))]

\* processRows lines 53-60
CSVprocessor_requiredFields ==
    <<SubmissionDateColumn, CaseDateColumn, CaseIdColumn, ProductIdColumn,
      QuantityColumn, CustomerIdColumn>>

\* line 84: the value of the expression (missingFields.length = 0), an
\* assignment
LengthAssignment == JsNumber(0)

InitLegacy ==
    \E recs \in SeqsUpTo(OrdersRecords, MaxRows) :
        Loaded("orders", recs, "legacyBegin")

\* lines 33-41: connect, BEGIN, truncateStage
LegacyBegin ==
    /\ pc = "legacyBegin"
    /\ checkedOut' = checkedOut + 1
    /\ conn' = [tx |-> "active", work |-> <<>>, savepoints |-> <<>>]
    /\ stmts' = <<Stmt("BEGIN", 0, TRUE), Stmt("TRUNCATE", 0, TRUE)>>
    /\ pc' = "legacyRows"
    /\ UNCHANGED program
    /\ UNCHANGED <<config, store, tables, orch, locals, error, preTable,
                   postProcessed, faults>>

\* lines 46-113 for one row: normalize, map, filter the required fields,
\* then the if / else if of lines 66 and 84 and the catch of line 95
ProcessLegacyRow ==
    /\ pc = "legacyRows"
    /\ i < Len(rows)
    /\ LET row       == rows[i + 1]
           mappedRow == mapCSVToSchema(normalizeRow(row))
           missingFields ==
               SelectSeq(CSVprocessor_requiredFields,
                         LAMBDA key : IsMissing(mappedRow, key))
       IN
       IF Len(missingFields) # 0
       THEN /\ errorCount' = errorCount + 1
            /\ errorRows' = Append(errorRows,
                               [row |-> row, reason |-> "missing",
                                missingFields |-> missingFields])
            /\ UNCHANGED <<successCount, validRows, stmts, conn>>
       ELSE IF Truthy(LengthAssignment)
       THEN /\ stmts' = Append(stmts, Stmt("INSERT", i + 1,
                                           row.fault # "db"))
            /\ IF row.fault # "db"
               THEN /\ successCount' = successCount + 1
                    /\ validRows' = Append(validRows, row)
                    /\ conn' = [conn EXCEPT !.work = Append(@, mappedRow)]
                    /\ UNCHANGED <<errorCount, errorRows>>
               ELSE /\ errorCount' = errorCount + 1
                    /\ errorRows' = Append(errorRows,
                                       [row |-> row,
                                        reason |-> DbErrorMessage,
                                        missingFields |-> <<>>])
                    /\ conn' = [conn EXCEPT !.tx = "aborted"]
                    /\ UNCHANGED <<successCount, validRows>>
       ELSE UNCHANGED <<successCount, errorCount, validRows, errorRows,
                        stmts, conn>>
    /\ i' = i + 1
    /\ missingFieldErrors' = errorRows'
    /\ UNCHANGED program
    /\ UNCHANGED <<config, store, tables, checkedOut, orch, rows, j, pc,
                   error, preTable, postProcessed, faults>>

\* lines 124-142: COMMIT, release, return the counts
LegacyCommit ==
    /\ pc = "legacyRows"
    /\ i = Len(rows)
    /\ stmts' = Append(stmts, Stmt("COMMIT", 0, TRUE))
    /\ conn' = NoTx
    /\ checkedOut' = release(checkedOut)
    /\ pc' = "legacyDone"
    /\ UNCHANGED program
    /\ UNCHANGED <<config, store, tables, orch, locals, error, preTable,
                   postProcessed, faults>>

NextLegacy == LegacyBegin \/ ProcessLegacyRow \/ LegacyCommit

SpecLegacy == InitLegacy /\ [][NextLegacy]_vars

\* ---- the statements that end the transaction can fail
CommitErrorMessage   == "commit failed"
RollbackErrorMessage == "rollback failed"

\* line 323 rejects: the server has rolled the transaction back (a deferred
\* constraint, a serialization failure) or the statement was given up with
\* the transaction still open (a query timeout); the catch block of line
\* 332 is next.
CommitFails ==
    /\ pc = "commit"
    /\ faults < MaxFaults
    /\ Fault(FALSE)
    /\ \E ended \in BOOLEAN :
         conn' = IF ended THEN NoTx ELSE [conn EXCEPT !.tx = "aborted"]
    /\ stmts' = Append(stmts, Stmt("COMMIT", 0, FALSE))
    /\ error' = CommitErrorMessage
    /\ pc' = "rollback"
    /\ UNCHANGED program
    /\ UNCHANGED <<config, store, tables, checkedOut, orch, locals, preTable,
                   postProcessed>>

\* line 333 rejects inside the catch block: its exception replaces the one
\* being handled, the finally block releases the client (line 341), and the
\* orchestrator records the file as failed.
RollbackFails ==
    /\ pc = "rollback"
    /\ faults < MaxFaults
    /\ Fault(FALSE)
    /\ stmts' = Append(stmts, Stmt("ROLLBACK", 0, FALSE))
    /\ error' = RollbackErrorMessage
    /\ checkedOut' = release(checkedOut)
    /\ FinishFile(FailedResult(RollbackErrorMessage))
    /\ UNCHANGED program
    /\ UNCHANGED <<config, store, tables, conn, run, pipeline, listing,
                   locals, preTable, postProcessed>>

NextTx == Next \/ CommitFails \/ RollbackFails

SpecTx == Init /\ [][NextTx]_vars

\* ---- the batch loop of processRows for every BATCH_SIZE
\* config line 183: parseInt(getOptionalEnv('BATCH_SIZE', '100'), 10) for a
\* text of digits, letters, blanks and a sign; an empty text counts as unset
configBatchSize(text) ==
    LET t == TrimStart(IF text = <<>> THEN <<"1", "0", "0">> ELSE text) IN
    IF t # <<>> /\ Head(t) = "-"
    THEN IF LeadingDigits(Tail(t)) = <<>> THEN JsNaN
         ELSE JsNumber(0 - Decimal(LeadingDigits(Tail(t))))
    ELSE parseInt(t)

\* BasePipeline constructor, line 36: config.batchSize || 100
BasePipeline_batchSize(v) == IF Truthy(v) THEN v.value ELSE DefaultBatchSize

\* Array.prototype.slice: a negative index counts from the end, and both
\* indexes are clamped to 0..length
SliceIndex(len, n) ==
    IF n < 0 THEN (IF len + n < 0 THEN 0 ELSE len + n) ELSE Min(n, len)

SliceLen(len, start, end) ==
    IF SliceIndex(len, end) > SliceIndex(len, start)
    THEN SliceIndex(len, end) - SliceIndex(len, start)
    ELSE 0

\* line 233: rows.slice(i, i + this.batchSize), as the index of its first
\* row and its length
BatchStart == SliceIndex(Len(rows), i)
BatchLength == SliceLen(Len(rows), i, i + batchSize)

\* i += this.batchSize.  Every i below -rows.length selects the same empty
\* batch, so a falling i is kept at the first such value.
NextBatchIndex ==
    IF i + batchSize < 0 - Len(rows) - 1 THEN 0 - Len(rows) - 1
    ELSE i + batchSize

BatchSizeTexts ==
    {<<>>, <<"0">>, <<"a">>, <<"1">>, <<"2">>, <<"2", "a">>, <<"-", "1">>,
     <<"-", "2">>, <<"-">>}

InitLoop ==
    \E text \in BatchSizeTexts, p \in Pipelines,
       recs \in SeqsUpTo(SourceRecords, MaxRows) :
        LoadedWith(p, recs, "loopTest",
                   BasePipeline_batchSize(configBatchSize(text)))

\* line 232: the test of the outer loop, and line 233 when it passes
OuterLoopTest ==
    /\ pc = "loopTest"
    /\ IF i < Len(rows)
       THEN /\ j' = 0
            /\ pc' = "loopBatch"
       ELSE /\ pc' = "loopDone"
            /\ UNCHANGED j
    /\ UNCHANGED program
    /\ UNCHANGED <<config, store, tables, conn, checkedOut, orch, rows, i,
                   successCount, errorCount, validRows, errorRows,
                   missingFieldErrors, file, faults>>

\* line 235: the test of the inner loop; when it fails, the batch is over
\* and the outer loop adds batchSize to i
InnerLoopTest ==
    /\ pc = "loopBatch"
    /\ IF j < BatchLength
       THEN /\ pc' = "loopRow"
            /\ UNCHANGED i
       ELSE /\ i' = NextBatchIndex
            /\ pc' = "loopTest"
    /\ UNCHANGED program
    /\ UNCHANGED <<config, store, tables, conn, checkedOut, orch, rows, j,
                   successCount, errorCount, validRows, errorRows,
                   missingFieldErrors, file, faults>>

\* lines 236-307 for batch[j], with insertRow as one step; an exception of
\* mapRow leaves both loops for the catch block of line 332
LoopRow ==
    /\ pc = "loopRow"
    /\ LET row == rows[BatchStart + j + 1] IN
       IF row.fault = "map"
       THEN /\ error' = MapErrorMessage
            /\ pc' = "loopFailed"
            /\ UNCHANGED <<j, successCount, errorCount, validRows, errorRows,
                           missingFieldErrors>>
       ELSE /\ IF row.fault = "none"
                  /\ Len(validateRow(mapRow(normalizeRow(row)))) = 0
               THEN /\ successCount' = successCount + 1
                    /\ validRows' = Append(validRows, row)
                    /\ UNCHANGED <<errorCount, errorRows, missingFieldErrors>>
               ELSE RecordError(ErrorDetail(row, "refused", <<>>))
            /\ j' = j + 1
            /\ pc' = "loopBatch"
            /\ UNCHANGED error
    /\ UNCHANGED program
    /\ UNCHANGED <<config, store, tables, conn, checkedOut, orch, rows, i,
                   stmts, preTable, postProcessed, faults>>

NextLoop == OuterLoopTest \/ InnerLoopTest \/ LoopRow

SpecLoop == InitLoop /\ [][NextLoop]_vars /\ WF_vars(NextLoop)

\* ---- the registry, for every content of the pipelines folder
FolderNames ==
    <<"_template", "dental-groups", "dental-practices",
      "lab-practice-mapping", "lab-product-mapping", "orders",
      "product-catalog">>

FolderScans ==
    {[n \in 1..Len(FolderNames) |->
         Folder(FolderNames[n], n = 1, kinds[n])] :
       kinds \in [1..Len(FolderNames) -> FolderKinds]}

InitRegistry ==
    \E scan \in FolderScans :
        Started("orders", [q \in Pipelines |-> q], <<>>,
                [q \in Pipelines |-> <<>>], DefaultBatchSize, Registry(scan))

Call(of, value) ==
    /\ returned' = [of |-> of, value |-> value]
    /\ UNCHANGED <<pipelines, shutdown, config, store, tables, conn,
                   checkedOut, pc, orch, locals, file, faults>>

GetPipelineNames == Call("getPipelineNames", getPipelineNames(pipelines))

GetAvailablePipelines ==
    Call("getAvailablePipelines", getAvailablePipelines(pipelines))

\* the names a caller asks about: every folder name, the utility names, an
\* inherited name and a name nobody registered
AskedNames ==
    {FolderNames[n] : n \in 1..Len(FolderNames)}
        \cup {"hasPipeline", "getPipelineNames", "__proto__", "missing"}

HasPipeline ==
    \E name \in AskedNames :
        Call("hasPipeline",
             [name |-> name, result |-> hasPipeline(pipelines, name)])

NextRegistry == GetPipelineNames \/ GetAvailablePipelines \/ HasPipeline

SpecRegistry == InitRegistry /\ [][NextRegistry]_vars

\* ---- the audit-CSV writer and the key normalisation, character by
\* character
Quote          == "\""
Comma          == ","
NewLine        == "\n"
CarriageReturn == "\r"
Space          == " "

\* .replace(/\r?\n/g, ' ')
RECURSIVE ReplaceNewlines(_)
ReplaceNewlines(t) ==
    IF t = <<>> THEN <<>>
    ELSE IF Len(t) >= 2 /\ t[1] = CarriageReturn /\ t[2] = NewLine
    THEN <<Space>> \o ReplaceNewlines(SubSeq(t, 3, Len(t)))
    ELSE IF t[1] = NewLine THEN <<Space>> \o ReplaceNewlines(Tail(t))
    ELSE <<t[1]>> \o ReplaceNewlines(Tail(t))

\* .replace(/"/g, '""')
RECURSIVE DoubleQuotes(_)
DoubleQuotes(t) ==
    IF t = <<>> THEN <<>>
    ELSE IF t[1] = Quote THEN <<Quote, Quote>> \o DoubleQuotes(Tail(t))
    ELSE <<t[1]>> \o DoubleQuotes(Tail(t))

\* `"${String(v ?? '').replace(...).replace(...)}"`
CsvField(v) == <<Quote>> \o DoubleQuotes(ReplaceNewlines(v)) \o <<Quote>>

RECURSIVE JoinTexts(_, _)
JoinTexts(parts, separator) ==
    IF parts = <<>> THEN <<>>
    ELSE IF Len(parts) = 1 THEN parts[1]
    ELSE parts[1] \o <<separator>> \o JoinTexts(Tail(parts), separator)

\* objectToCSV (processor.js 361-377, csv-helpers.js 73-87): the text
objectToCSV_text(data) ==
    IF data = <<>> THEN <<>>
    ELSE JoinTexts(
           <<JoinTexts(ObjectKeys(data[1].cells), Comma)>>
           \o [n \in 1..Len(data) |->
                  JoinTexts([k \in 1..Len(data[n].cells) |->
                                CsvField(data[n].cells[k][2])], Comma)],
           NewLine)

\* A standard (RFC 4180) CSV reader: the records of a text, each the
\* sequence of its fields.  at is "start" (a field begins), "plain",
\* "quoted" or "closed" (a quote was read inside a quoted field).
RECURSIVE ReadFrom(_, _, _, _, _)
ReadFrom(t, at, field, record, records) ==
    IF t = <<>>
    THEN IF at = "start" /\ record = <<>> THEN records
         ELSE Append(records, Append(record, field))
    ELSE IF at = "quoted"
    THEN IF t[1] = Quote
         THEN ReadFrom(Tail(t), "closed", field, record, records)
         ELSE ReadFrom(Tail(t), "quoted", Append(field, t[1]), record,
                       records)
    ELSE IF at = "closed" /\ t[1] = Quote
    THEN ReadFrom(Tail(t), "quoted", Append(field, Quote), record, records)
    ELSE IF at = "start" /\ t[1] = Quote
    THEN ReadFrom(Tail(t), "quoted", field, record, records)
    ELSE IF t[1] = Comma
    THEN ReadFrom(Tail(t), "start", <<>>, Append(record, field), records)
    ELSE IF t[1] = NewLine
    THEN ReadFrom(Tail(t), "start", <<>>, <<>>,
                  Append(records, Append(record, field)))
    ELSE IF t[1] = CarriageReturn /\ Len(t) >= 2 /\ t[2] = NewLine
    THEN ReadFrom(Tail(Tail(t)), "start", <<>>, <<>>,
                  Append(records, Append(record, field)))
    ELSE ReadFrom(Tail(t), "plain", Append(field, t[1]), record, records)

ReadCsv(text) == ReadFrom(text, "start", <<>>, <<>>, <<>>)

\* the texts over an alphabet, up to a length
RECURSIVE Texts(_, _)
Texts(alphabet, n) ==
    IF n = 0 THEN {<<>>}
    ELSE Texts(alphabet, n - 1)
         \cup {Append(t, ch) : t \in Texts(alphabet, n - 1), ch \in alphabet}

CsvAlphabet == {"a", Comma, Quote, NewLine}

HeaderTexts ==
    {<<"C", "a", "s", "e", "I", "d">>,
     <<"c", "a", "s", "e", "i", "d">>,
     <<"L", "a", "b", " ", "P", "r", "o", "d", "u", "c", "t", " ", "I", "D">>,
     <<" ", "C", "a", "s", "e", "-", "I", "d", " ">>}

\* One object with two properties is written and normalised; the value of
\* its first property is any text of up to MaxText characters.
InitCsv ==
    \E header \in HeaderTexts, text \in Texts(CsvAlphabet, MaxText) :
        Loaded("orders",
               <<[cells |-> <<<<header, text>>, <<<<"B">>, <<"b">>>>>>,
                  fault |-> "none"]>>,
               "idle")

WriteCsv == Call("objectToCSV", objectToCSV_text(rows))

NormalizeRow == Call("normalizeRow", normalizeRow(rows[1]))

\* the row normalizeRow returned is normalised once more
NormalizeAgain ==
    /\ returned.of = "normalizeRow"
    /\ Call("normalizeRow twice",
            [once |-> returned.value, twice |-> normalizeRow(returned.value)])

NextCsv == WriteCsv \/ NormalizeRow \/ NormalizeAgain

SpecCsv == InitCsv /\ [][NextCsv]_vars

\* ------------------------------------------------------------ shutdown
\* index.js lines 49-56.  SIGINT or SIGTERM calls shutdown(), which awaits
\* dbConnection.close(), that is pool.end(), and then calls process.exit(0).
\* Nothing else is told about the signal: the orchestrator goes on.
Signal ==
    /\ shutdown = "running"
    /\ pc # "exited"
    /\ shutdown' = "closing"
    /\ UNCHANGED <<pipelines, returned, config, store, tables, conn,
                   checkedOut, pc, orch, locals, file, faults>>

\* pool.end() resolves once every client is back in the pool; shutdown()
\* resumes and the process exits.
Exit ==
    /\ shutdown = "closing"
    /\ checkedOut = 0
    /\ shutdown' = "exited"
    /\ pc' = "exited"
    /\ UNCHANGED <<pipelines, returned, config, store, tables, conn,
                   checkedOut, orch, locals, file, faults>>

\* A further signal calls shutdown() again: pool.end() rejects ("Called end
\* on pool more than once"), close() rethrows (part_001 lines 482-487) and
\* the rejection of shutdown() is handled nowhere, which ends the process
\* where it stands.
SignalAgain ==
    /\ shutdown = "closing"
    /\ shutdown' = "crashed"
    /\ pc' = "exited"
    /\ UNCHANGED <<pipelines, returned, config, store, tables, conn,
                   checkedOut, orch, locals, file, faults>>

\* The orders location holds two short files; signals arrive at any time.
InitShutdown ==
    \E first \in ShortFiles, second \in ShortFiles :
        Start("orders", OnlyConfigured("orders"),
              (FileKey(<<"orders">>, FileName)
                   :> SourceCsv(<<RawKeyHeader>>, first))
              @@ (FileKey(<<"orders">>, SourceFile("extra"))
                   :> SourceCsv(<<RawKeyHeader>>, second)),
              [q \in Pipelines |-> <<>>],
              DefaultBatchSize)

NextShutdown == Next \/ Signal \/ Exit \/ SignalAgain

SpecShutdown == InitShutdown /\ [][NextShutdown]_vars

\* ================================================================ claims
InFile == pc \in {"connect", "truncate", "row", "insert", "finish", "post",
                  "commit", "rollback", "upValid", "upLog", "delete"}

\* processRows has returned normally for the current file
Returned == pc \in {"upValid", "upLog", "delete"}

\* text of the key cell of a source record
KeyText(r) == r.cells[1][2]

IsValidRow(r)   == r.fault = "none" /\ KeyText(r) # NoKey
IsMissingRow(r) == r.fault = "none" /\ KeyText(r) = NoKey

RowsExcept(k) ==
    [n \in 1..(Len(rows) - 1) |-> IF n < k THEN rows[n] ELSE rows[n + 1]]

OnlyRowMissing(k) ==
    /\ k \in 1..Len(rows)
    /\ IsMissingRow(rows[k])
    /\ \A n \in 1..Len(rows) : n # k => IsValidRow(rows[n])

\* the key of row n is in the table, put there by this run or, under
\* ON CONFLICT DO NOTHING, already there when the run began
InsertedOrPresent(tbl, k) ==
    \E m \in 1..Len(tbl) :
        /\ tbl[m].key = k
        /\ \/ tbl[m].run = run
           \/ OnConflictDoNothing(pipeline) /\ HasKey(preTable, k)

\* C1: partial failure isolation.  When exactly one row k of the file misses
\* its required field and every other row is valid and insertable, the file
\* is rolled back only if postProcess raised; once processRows has returned,
\* the other rows are the valid rows in input order, each of them is in the
\* committed table, row k is the only error row and names the missing field,
\* and the transaction was ended by COMMIT.
C1_PartialFailureIsolation ==
    \A k \in 1..Len(rows) :
        (InFile /\ pc # "connect" /\ OnlyRowMissing(k)) =>
            /\ pc = "rollback" => error = PostProcessErrorMessage
            /\ Returned =>
                 /\ validRows = RowsExcept(k)
                 /\ successCount = Len(rows) - 1
                 /\ errorCount = 1
                 /\ Len(errorRows) = 1
                 /\ errorRows[1].row = rows[k]
                 /\ errorRows[1].missingFields = <<"key">>
                 /\ \A n \in 1..Len(rows) :
                        n # k => InsertedOrPresent(table, KeyText(rows[n]))
                 /\ \E n \in 1..Len(stmts) : stmts[n].op = "COMMIT"
                 /\ conn.tx = "none"

C1_Witness ==
    /\ pc = "upValid"
    /\ Len(rows) >= 2
    /\ \E k \in 1..Len(rows) : OnlyRowMissing(k)
    /\ \E m \in 1..Len(table) : table[m].run = run

RunRows(tbl) == SelectSeq(tbl, LAMBDA t : t.run = run)

KeysOf(tbl) == {tbl[n].key : n \in 1..Len(tbl)}

KeyTexts(recs) == {KeyText(recs[n]) : n \in 1..Len(recs)}

CountWhere(seq, P(_)) == Len(SelectSeq(seq, P))

\* the rows the current run has finished processing
Processed ==
    IF pc \in {"row", "insert", "finish"} THEN RowNumber - 1
    ELSE IF pc = "rollback" /\ i < Len(rows) THEN RowNumber - 1
    ELSE Len(rows)

\* C2: a failed INSERT is undone alone.  Only rows the database rejects have
\* a failed INSERT (the transaction stays usable for the rows around them);
\* each such row is an error row whose reason is the database error message;
\* between rows the transaction is active and holds exactly the successful
\* inserts; and once the file has committed, every successfully inserted
\* row, before or after the failed one, is in the table.
C2_InsertFailureIsolated ==
    (InFile /\ pc \notin {"connect", "truncate"}) =>
        /\ \A n \in 1..Len(stmts) :
              (stmts[n].op = "INSERT" /\ ~stmts[n].ok) =>
                  rows[stmts[n].row].fault = "db"
        /\ CountWhere(errorRows, LAMBDA e : e.reason = DbErrorMessage
                                            /\ e.row.fault = "db"
                                            /\ e.missingFields = <<>>)
             = CountWhere(SubSeq(rows, 1, Processed),
                          LAMBDA r : r.fault = "db")
        /\ pc \in {"row", "post", "commit"} =>
              /\ conn.tx = "active"
              /\ KeysOf(conn.work) \ KeysOf(preTable) \subseteq KeyTexts(validRows)
              /\ Len(RunRows(conn.work)) <= Len(validRows)
              /\ ~OnConflictDoNothing(pipeline) =>
                    Len(RunRows(conn.work)) = Len(validRows)
        /\ Returned =>
              /\ \A n \in 1..Len(rows) :
                    IsValidRow(rows[n]) =>
                        InsertedOrPresent(table, KeyText(rows[n]))
              /\ Len(RunRows(table)) <= Len(validRows)
              /\ ~OnConflictDoNothing(pipeline) =>
                    [n \in 1..Len(RunRows(table)) |-> RunRows(table)[n].key]
                      = [n \in 1..Len(validRows) |-> KeyText(validRows[n])]

\* a rejected row followed by a row inserted by this run, both committed
C2_Witness ==
    /\ pc = "upValid"
    /\ Len(rows) = 2
    /\ rows[1].fault = "db"
    /\ IsValidRow(rows[2])
    /\ Len(RunRows(table)) = 1
    /\ Len(errorRows) = 1

\* postProcess raised in the transaction of the statements in stmts
PostProcessRaised == error = PostProcessErrorMessage /\ stmts # <<>>

\* C3: post-process rollback.  From the moment postProcess raises, the file
\* never commits: the engine goes to its rollback path and the table keeps
\* the content it had at BEGIN, with no row of this file; when the run has
\* returned, the transaction was ended by ROLLBACK, the client is released
\* and the run's result for the file is a failure carrying the error.
C3_PostProcessRollback ==
    PostProcessRaised =>
        /\ pc \in {"rollback", "idle", "pipeline", "file"}
        /\ table = preTable
        /\ RunRows(table) = <<>>
        /\ pc = "idle" =>
              /\ Last(stmts).op = "ROLLBACK"
              /\ conn = NoTx
              /\ checkedOut = 0
              /\ results # <<>>
              /\ Last(results) = [file |-> listing[Len(results)],
                                  success |-> FALSE,
                                  error |-> PostProcessErrorMessage]

\* every row valid and inserted in the transaction, postProcess raised, the
\* run is over
C3_Witness ==
    /\ pc = "idle"
    /\ PostProcessRaised
    /\ Len(rows) = 2
    /\ \A n \in 1..Len(rows) : IsValidRow(rows[n])
    /\ Len(validRows) = 2
    /\ preTable # <<>>
    /\ ~Last(results).success

IsRowException(msg) == msg \in {MapErrorMessage, ValidateErrorMessage}

\* C4: an exception raised while normalizing, mapping or validating a row is
\* caught at the row: the engine never enters its rollback path because of
\* it, and every row that raised is an error row carrying the exception
\* message.
C4_RowExceptionCaughtAtRow ==
    (InFile /\ pc \notin {"connect", "truncate"}) =>
        /\ pc = "rollback" => ~IsRowException(error)
        /\ CountWhere(errorRows, LAMBDA e : IsRowException(e.reason))
             = CountWhere(SubSeq(rows, 1, Processed),
                          LAMBDA r : r.fault \in {"map", "validate"})

\* C5: a row with a missing required field reaches the database with no
\* statement at all (no SAVEPOINT, no INSERT); it is an error row carrying
\* the missing-field list, and the loop goes on to the next row, so that
\* between rows every finished row has exactly one outcome.
C5_NoInsertForMissingField ==
    (InFile /\ pc \notin {"connect", "truncate"}) =>
        /\ \A n \in 1..Len(stmts) :
              stmts[n].row # 0 => ~IsMissingRow(rows[stmts[n].row])
        /\ CountWhere(errorRows,
                      LAMBDA e : /\ IsMissingRow(e.row)
                                 /\ e.missingFields = <<"key">>
                                 /\ e.reason = "Missing required fields: key")
             = CountWhere(SubSeq(rows, 1, Processed), IsMissingRow)
        /\ pc \in {"row", "post", "commit"} =>
              Len(validRows) + Len(errorRows) = Processed

\* a missing-field row has been recorded and the next row is being inserted
C5_Witness ==
    /\ pc = "insert"
    /\ RowNumber = 2
    /\ IsMissingRow(rows[1])
    /\ Len(errorRows) = 1
    /\ Len(stmts) >= 2

\* C6: truncate-and-load.  Once a run of the truncating pipeline has
\* committed, the table holds exactly one row per successfully inserted row
\* of the file, in input order, and nothing that was there before the run.
C6_TruncateAndLoad ==
    (Returned /\ pipeline = "orders") =>
        /\ \A m \in 1..Len(table) : table[m].run = run
        /\ [m \in 1..Len(table) |-> table[m].key]
             = [n \in 1..Len(validRows) |-> KeyText(validRows[n])]
        /\ \A n \in 1..Len(stmts) :
              (stmts[n].op = "INSERT" /\ stmts[n].ok) =>
                  \E m \in 1..Len(table) :
                      table[m].key = KeyText(rows[stmts[n].row])

\* a committed truncating run over a non-empty table, with a row inserted
\* and a row refused
C6_Witness ==
    /\ pc = "upValid"
    /\ pipeline = "orders"
    /\ preTable # <<>>
    /\ Len(validRows) >= 1
    /\ Len(errorRows) >= 1

InTransaction == pc \in {"truncate", "row", "insert", "finish", "post",
                         "commit", "rollback"}

\* C7: in the truncating pipeline BEGIN is the first statement on the
\* client, TRUNCATE the second and the only one, and every INSERT comes
\* later; the truncate stays invisible while the transaction is open, and
\* once the transaction has been rolled back the table holds exactly its
\* content from before the run.
C7_TruncateInsideTransaction ==
    (pipeline = "orders" /\ stmts # <<>>) =>
        /\ stmts[1].op = "BEGIN"
        /\ Len(stmts) >= 2 => stmts[2].op = "TRUNCATE"
        /\ \A n \in 1..Len(stmts) :
              /\ stmts[n].op = "TRUNCATE" => n = 2
              /\ stmts[n].op \in {"SAVEPOINT", "INSERT"} => n > 2
        /\ InTransaction => table = preTable
        /\ Last(stmts).op = "ROLLBACK" => table = preTable

\* truncate issued, rows inserted, transaction rolled back over a non-empty
\* table
C7_Witness ==
    /\ pipeline = "orders"
    /\ stmts # <<>>
    /\ Last(stmts).op = "ROLLBACK"
    /\ \E n \in 1..Len(stmts) : stmts[n].op = "INSERT" /\ stmts[n].ok
    /\ preTable # <<>>
    /\ table = preTable

\* C8: idempotent upsert.  In the conflict-ignoring pipeline no key is ever
\* twice in the table, and of any two runs that processed the file's rows the
\* later leaves the table with as many rows as the earlier.
C8_IdempotentUpsert ==
    pipeline = "product-catalog" =>
        /\ \A m, n \in 1..Len(table) :
              m # n => table[m].key # table[n].key
        /\ \A a, b \in 1..Len(history) :
              (/\ a < b
               /\ history[a].pipeline = "product-catalog"
               /\ history[b].pipeline = "product-catalog"
               /\ history[a].attempted /\ history[b].attempted) =>
                  history[b].tableLen = history[a].tableLen

\* the file was processed in two runs, the first inserted a row and the
\* second found its rows valid again
C8_Witness ==
    /\ pipeline = "product-catalog"
    /\ pc = "idle"
    /\ Len(history) = 2
    /\ history[1].attempted
    /\ history[2].attempted
    /\ \E m \in 1..Len(table) : table[m].run = 1
    /\ successCount >= 1

LogUploaded == pc = "delete" /\ lastLog # NoCsv

CellValues(r) == [k \in 1..Len(r.cells) |-> r.cells[k][2]]

\* a log line without its last three cells
SourceColumns(line) ==
    CsvLine(SubSeq(line.values, 1, Len(line.values) - 3), line.fault)

\* C9: row-order preservation.  The data rows of the uploaded log CSV are
\* the input rows R1..Rn in input order.
C9_LogPreservesRowOrder ==
    LogUploaded =>
        [n \in 1..Len(lastLog.lines) |-> SourceColumns(lastLog.lines[n])]
          = [n \in 1..Len(rows) |-> CsvLine(CellValues(rows[n]),
                                            rows[n].fault)]

InsertSucceeded(n) ==
    \E m \in 1..Len(stmts) :
        stmts[m].op = "INSERT" /\ stmts[m].row = n /\ stmts[m].ok

ExpectedLogLine(n) ==
    IF InsertSucceeded(n)
    THEN CsvLine(CellValues(rows[n]) \o <<"success", "", "">>, rows[n].fault)
    ELSE CsvLine(CellValues(rows[n]) \o
                   <<"error",
                     IF rows[n].fault = "db" THEN DbErrorMessage
                     ELSE IF rows[n].fault = "validate"
                          THEN ValidateErrorMessage
                     ELSE "Missing required fields: key",
                     IF IsMissingRow(rows[n]) THEN "key" ELSE "">>,
                 rows[n].fault)

\* C10: the uploaded log CSV has one data row per input row: as a multiset
\* its lines are the input rows, each with etl_status success and an empty
\* reason if its INSERT succeeded, and with etl_status error and the failure
\* reason otherwise.
C10_LogCoversEveryRow ==
    LogUploaded =>
        /\ Len(lastLog.lines) = Len(rows)
        /\ \A n \in 1..Len(rows) :
              CountWhere(lastLog.lines, LAMBDA l : l = ExpectedLogLine(n))
                = Cardinality({m \in 1..Len(rows) :
                                  ExpectedLogLine(m) = ExpectedLogLine(n)})
        /\ \A n \in 1..Len(lastLog.lines) :
              lastLog.lines[n].values[Len(lastLog.header) - 2]
                \in {"success", "error"}

\* a log uploaded for a file with an inserted row and a refused row
C10_Witness ==
    /\ LogUploaded
    /\ Len(rows) = 2
    /\ Len(validRows) = 1
    /\ Len(errorRows) = 1

PropertyNames(obj) == [k \in 1..Len(obj) |-> obj[k][1]]

\* C11: the header of the uploaded log CSV is the source file's header
\* followed by etl_status, etl_reason, missingFields, and every data line
\* has one cell per header column, whatever the source columns are called.
C11_LogColumns ==
    LogUploaded =>
        /\ lastLog.header
             = PropertyNames(rows[1].cells)
                 \o <<EtlStatusProperty, EtlReasonProperty,
                      MissingFieldsProperty>>
        /\ \A n \in 1..Len(lastLog.lines) :
              Len(lastLog.lines[n].values) = Len(lastLog.header)

\* a call of the S3 handler's method op for the file was issued in this run
Called(op, fileName) ==
    \E n \in 1..Len(s3Calls) : s3Calls[n] = S3Call(op, fileName)

\* C12: every file of the listing that processPipeline has finished, and
\* that was not skipped as empty, had its audit log CSV sent to the logs
\* location, whether the file succeeded or failed.
C12_LogForEveryFile ==
    \A n \in 1..Len(results) :
        (results[n].success => ~results[n].skipped) =>
            Called("uploadLogFile", results[n].file)

\* C13: the candidate list of processPipeline holds only .csv files lying
\* directly in the source location, none from processed/ or logs/.
C13_ListingExcludesAuditFiles ==
    \A n \in 1..Len(listing) :
        /\ listing[n].ext = "csv"
        /\ listing[n].path = <<>>

FileErrorMessages ==
    {FetchErrorMessage, ParseErrorMessage, ConnectErrorMessage,
     MapErrorMessage, PostProcessErrorMessage}

\* C14: a file failure stays inside the file loop.  The files still to be
\* processed are always exactly the files of the listing after the ones
\* already recorded, whatever the outcome of those was; a failed file is
\* recorded with success false and its error; and the pipeline's summary
\* never carries a file's error: it counts one result per listed file.
C14_FileFailureIsolated ==
    /\ queue = SubSeq(listing, Len(results) + 1, Len(listing))
    /\ \A n \in 1..Len(results) :
          /\ results[n].file = listing[n]
          /\ ~results[n].success => results[n].error \in FileErrorMessages
    /\ \A n \in 1..Len(history) :
          /\ history[n].error \notin FileErrorMessages
          /\ history[n].processed
               = history[n].successful + history[n].failed
    /\ (pc \in {"idle", "pipeline"} /\ listing # <<>>) =>
          /\ Len(results) = Len(listing)
          /\ Last(history).results = results
          /\ Last(history).error = ""

\* the first file could not get a client, the second one was processed
C14_Witness ==
    /\ pc \in {"idle", "pipeline"}
    /\ Len(listing) = 2
    /\ Len(results) = 2
    /\ ~results[1].success
    /\ results[1].error = ConnectErrorMessage
    /\ results[2].success
    /\ ~results[2].skipped
    /\ results[2].successCount = 1

\* C15: processAllPipelines takes the registered pipelines one after the
\* other in registration order.  The outcomes stored so far are those of
\* the first registered names, the names still to run are the rest, a stored
\* failure counts no file, and the call ends only when every registered
\* pipeline has its outcome.
C15_AllPipelinesRun ==
    /\ [n \in 1..Len(all.results) |-> all.results[n].pipeline]
         = SubSeq(RegisteredPipelines, 1, Len(all.results))
    /\ all.active =>
          all.pending = SubSeq(RegisteredPipelines, Len(all.results) + 1,
                               Len(RegisteredPipelines))
    /\ (~all.active /\ all.results # <<>>) =>
          Len(all.results) = Len(RegisteredPipelines)
    /\ \A n \in 1..Len(all.results) :
          all.results[n].error # "" =>
              /\ all.results[n].error \in {FolderErrorMessage,
                                            ListErrorMessage}
              /\ all.results[n].processed = 0
              /\ all.results[n].successful = 0
              /\ all.results[n].failed = 0
    /\ pc = "pipeline" => all.active
    /\ (all.active /\ pc # "pipeline") => pipeline = Head(all.pending)

\* listing failed for the first pipeline, the second processed its file
C15_Witness ==
    /\ pc = "idle"
    /\ ~all.active
    /\ Len(all.results) = 2
    /\ all.results[1].pipeline = "orders"
    /\ all.results[1].error = ListErrorMessage
    /\ all.results[2].pipeline = "product-catalog"
    /\ all.results[2].processed = 1
    /\ all.results[2].successful = 1
    /\ Len(tables["product-catalog"]) = 1

\* C16: connection discipline.  Exactly one client is checked out from
\* BEGIN until the transaction has ended, and none at any other moment: not
\* after COMMIT, not after ROLLBACK, not after a failed connect, and not
\* when the next file or the next run starts.
C16_ConnectionDiscipline ==
    /\ checkedOut \in {0, 1}
    /\ InTransaction => (checkedOut = 1 /\ conn.tx \in {"active", "aborted"})
    /\ ~InTransaction => (checkedOut = 0 /\ conn = NoTx)
    /\ Len(SelectSeq(stmts, LAMBDA st : st.op = "BEGIN")) <= 1

\* the second file of a listing is about to connect after the first file's
\* transaction was rolled back
C16_Witness ==
    /\ pc = "connect"
    /\ Len(results) = 1
    /\ ~results[1].success
    /\ results[1].error = MapErrorMessage
    /\ checkedOut = 0

HasCommit == \E n \in 1..Len(stmts) : stmts[n].op = "COMMIT"

\* C17: postProcess is invoked once, after the last row and before COMMIT.
\* No invocation is recorded while rows are being processed; when the loop
\* has ended every row has its outcome; an invocation happens after all
\* rows and before any COMMIT; and COMMIT is on the client exactly when the
\* one invocation has returned without raising.
C17_PostProcessOnceBeforeCommit ==
    /\ Len(postProcessed) <= 1
    /\ pc \in {"truncate", "row", "insert", "finish", "post"} =>
          postProcessed = <<>>
    /\ pc = "post" => successCount + errorCount = Len(rows)
    /\ pc \in {"commit", "upValid", "upLog", "delete"} =>
          Len(postProcessed) = 1
    /\ \A n \in 1..Len(postProcessed) :
          /\ postProcessed[n].rowsDone = Len(rows)
          /\ \A m \in 1..Len(stmts) :
                stmts[m].op = "COMMIT" => m > postProcessed[n].after
          /\ postProcessed[n].raised => ~HasCommit
          /\ (~postProcessed[n].raised /\ pc # "commit") => HasCommit
    /\ HasCommit => (Len(postProcessed) = 1 /\ Last(stmts).op = "COMMIT")

\* committed after a hook that issues no statement, over two rows
C17_Witness ==
    /\ pc = "upValid"
    /\ pipeline = "product-catalog"
    /\ Len(rows) = 2
    /\ Len(postProcessed) = 1
    /\ HasCommit

\* the row passes validation: no exception, no missing required field
PassesValidation(r) == r.fault \in {"none", "db"} /\ KeyText(r) # NoKey

\* rows whose INSERT, if any, has been issued
InsertStageDone == IF pc = "finish" THEN RowNumber ELSE Processed

\* C18: the INSERT statements issued for the file name, in this order, the
\* rows that passed validation among the rows handled so far, in input
\* order, each of them once.
C18_InsertsInInputOrder ==
    (InFile /\ pc \notin {"connect", "truncate"}) =>
        [n \in 1..Len(SelectSeq(stmts, LAMBDA st : st.op = "INSERT")) |->
            SelectSeq(stmts, LAMBDA st : st.op = "INSERT")[n].row]
          = SelectSeq([n \in 1..InsertStageDone |-> n],
                      LAMBDA n : PassesValidation(rows[n]))

\* two rows inserted in two batches of one row
C18_Witness ==
    /\ pc = "post"
    /\ batchSize = 1
    /\ Len(rows) = 2
    /\ \A n \in 1..Len(rows) : PassesValidation(rows[n])
    /\ Len(SelectSeq(stmts, LAMBDA st : st.op = "INSERT")) = 2

\* What the engine does with row n, read off the row alone: the statements
\* it issues, and whether the row ends as a valid row.
RowStatements(n) ==
    IF ~PassesValidation(rows[n]) THEN <<>>
    ELSE IF rows[n].fault = "db"
    THEN <<Stmt("SAVEPOINT", n, TRUE), Stmt("INSERT", n, FALSE),
           Stmt("ROLLBACK TO", n, TRUE)>>
    ELSE <<Stmt("SAVEPOINT", n, TRUE), Stmt("INSERT", n, TRUE),
           Stmt("RELEASE", n, TRUE)>>

RECURSIVE StatementsUpTo(_)
StatementsUpTo(n) ==
    IF n = 0 THEN <<>> ELSE StatementsUpTo(n - 1) \o RowStatements(n)

Preamble ==
    IF pipeline = "orders"
    THEN <<Stmt("BEGIN", 0, TRUE), Stmt("TRUNCATE", 0, TRUE)>>
    ELSE <<Stmt("BEGIN", 0, TRUE)>>

EndsValid(r) == PassesValidation(r) /\ r.fault = "none"

\* C19: batch-size independence.  Between two rows, at the end of the loop
\* and when a row's mapRow has raised, the k rows handled so far are the
\* first k rows of the file, each handled once, and the statements, the
\* counts and the row outcomes are those of handling rows 1..k one by one:
\* nothing in them depends on the batch size.
C19_BatchSizeIndependence ==
    /\ batchSize >= 1
    /\ (pc \in {"row", "post"}
          \/ (pc = "rollback" /\ error = MapErrorMessage)) =>
          LET k == successCount + errorCount IN
          /\ k <= Len(rows)
          /\ pc = "row" => RowNumber = k + 1
          /\ pc = "post" => k = Len(rows)
          /\ pc = "rollback" => (k < Len(rows) /\ rows[k + 1].fault = "map")
          /\ stmts = Preamble \o StatementsUpTo(k)
          /\ validRows = SelectSeq(SubSeq(rows, 1, k), EndsValid)
          /\ [n \in 1..Len(errorRows) |-> errorRows[n].row]
               = SelectSeq(SubSeq(rows, 1, k), LAMBDA r : ~EndsValid(r))
          /\ successCount = Len(validRows)
          /\ errorCount = Len(errorRows)
          /\ missingFieldErrors = errorRows

\* a file of two rows handled in two batches of one row, one row inserted
\* and one refused
C19_Witness ==
    /\ pc = "post"
    /\ batchSize = 1
    /\ Len(rows) = 2
    /\ successCount = 1
    /\ errorCount = 1

ListedKey(fileName) ==
    FileKey(getPipelinePaths(pipeline).sourcePath, fileName)

HasNoDataRows(fileName) ==
    /\ ListedKey(fileName) \in DOMAIN bucket
    /\ bucket[ListedKey(fileName)].lines = <<>>

\* C21: a file that parses to zero data rows is recorded as skipped
\* (success, all counts 0, skipped flag) unless it could not be fetched or
\* read; only such a file is recorded as skipped; processRows is never
\* entered for it; and the files still to be processed are the files of the
\* listing after the recorded ones, so the next file follows.
C21_EmptyFileSkipped ==
    /\ \A n \in 1..Len(results) :
          /\ HasNoDataRows(results[n].file) =>
                \/ /\ ~results[n].success
                   /\ results[n].error \in {FetchErrorMessage,
                                             ParseErrorMessage}
                \/ results[n] = [file |-> listing[n], success |-> TRUE,
                                 rowCount |-> 0, successCount |-> 0,
                                 errorCount |-> 0,
                                 missingFieldErrors |-> <<>>,
                                 skipped |-> TRUE]
          /\ (results[n].success /\ results[n].skipped) =>
                HasNoDataRows(results[n].file)
    /\ InFile => (rows # <<>> /\ ~HasNoDataRows(Head(queue)))
    /\ pc = "file" =>
          (queue # <<>>
           /\ queue = SubSeq(listing, Len(results) + 1, Len(listing)))

\* the first listed file had no data row, the second one was loaded
C21_Witness ==
    /\ pc \in {"idle", "pipeline"}
    /\ Len(results) = 2
    /\ results[1].success
    /\ results[1].skipped
    /\ results[1].rowCount = 0
    /\ results[2].success
    /\ ~results[2].skipped
    /\ results[2].successCount = 1

\* C22: the summary processPipeline returns for a non-empty listing counts
\* every listed file once: processed = successful + failed = number of
\* listed files, successful and failed count the results by their success
\* flag, and the results are one per listed file, in listing order.
C22_SummaryCountsListing ==
    (pc \in {"idle", "pipeline"} /\ listing # <<>>) =>
        LET summary == Last(history) IN
        /\ summary.error = ""
        /\ summary.processed = Len(listing)
        /\ summary.processed = summary.successful + summary.failed
        /\ summary.successful =
              Cardinality({n \in 1..Len(summary.results) :
                              summary.results[n].success})
        /\ summary.failed =
              Cardinality({n \in 1..Len(summary.results) :
                              ~summary.results[n].success})
        /\ [n \in 1..Len(summary.results) |-> summary.results[n].file]
              = listing

\* two listed files, the first loaded and the second failed
C22_Witness ==
    /\ pc \in {"idle", "pipeline"}
    /\ Len(listing) = 2
    /\ history # <<>>
    /\ Last(history).processed = 2
    /\ Last(history).successful = 1
    /\ Last(history).failed = 1
    /\ Last(history).results[1].success
    /\ ~Last(history).results[2].success

\* the two rows of the scenario
ScenarioRows ==
    <<OrdersRecord(<<"1">>, <<"P", "1">>, <<"3">>, FirstDay, FirstDay,
                   <<"C", "1">>, "none"),
      OrdersRecord(<<>>, <<"P", "2">>, <<"1">>, SecondDay, SecondDay,
                   <<"C", "2">>, "none")>>

\* C23: for the headers CaseId, ProductId, Quantity, SubmissionDate,
\* CaseDate, CustomerId and the rows (1, P1, 3, 2024-01-01, 2024-01-01, C1)
\* and (empty, P2, 1, 2024-01-02, 2024-01-02, C2), with the insert of row 1
\* succeeding, the orders pipeline ends with successCount = 1,
\* errorCount = 1, one INSERT (for row 1, quantity 3), and the second row
\* recorded with missingFields = [caseid].
C23_OrdersScenario ==
    (pc = "classDone" /\ pipeline = "orders" /\ rows = ScenarioRows) =>
        /\ successCount = 1
        /\ errorCount = 1
        /\ validRows = <<ScenarioRows[1]>>
        /\ Len(errorRows) = 1
        /\ errorRows[1].row = ScenarioRows[2]
        /\ errorRows[1].missingFields = <<<<"c", "a", "s", "e", "i", "d">>>>
        /\ Len(stmts) = 1
        /\ stmts[1].row = 1
        /\ stmts[1].values[QuantityColumn] = JsNumber(3)
        /\ stmts[1].values[CaseIdColumn] = JsNumber(1)

C23_Witness ==
    /\ pc = "classDone"
    /\ pipeline = "orders"
    /\ rows = ScenarioRows
    /\ successCount = 1
    /\ errorCount = 1

\* a text that denotes a number: a non-empty sequence of digits
IsNumberText(t) == t # <<>> /\ \A n \in 1..Len(t) : t[n] \in Digits

\* the column mapRow parses as a number, and the property it parses
NumericColumn(p) ==
    IF p = "orders" THEN QuantityColumn ELSE IncisiveIdColumn

NumericProperty(p) ==
    IF p = "orders" THEN QuantityColumn ELSE IncisiveIdProperty

\* C30: in the mapRow of the orders and the product-catalog pipeline, a
\* numeric field whose source text is not a valid number never reaches the
\* INSERT as a number or as NaN.
C30_NumericParse ==
    pc \in {"classRows", "classDone"} =>
        \A n \in 1..Len(stmts) :
            ~IsNumberText(Property(normalizeRow(rows[stmts[n].row]),
                                   NumericProperty(pipeline)).text)
                => stmts[n].values[NumericColumn(pipeline)].type
                       \notin {"number", "NaN"}

\* the names under which a pipeline class is registered
RegisteredNames ==
    SelectSeq(ObjectKeys(pipelines), LAMBDA k : Get(pipelines, k).class)

\* C26: the name enumerations of the registry, pipelines.getPipelineNames
\* and Orchestrator.getAvailablePipelines, return exactly the registered
\* pipeline names: every registered pipeline and no utility entry.
C26_NamesAreRegisteredPipelines ==
    returned.of \in {"getPipelineNames", "getAvailablePipelines"} =>
        returned.value = RegisteredNames

\* the same for Orchestrator.getAvailablePipelines alone
C26_AvailablePipelines ==
    returned.of = "getAvailablePipelines" => returned.value = RegisteredNames

\* C27: CSV escaping round trip.  A standard CSV reader applied to the
\* text objectToCSV renders gives back, for every object, the field values
\* unchanged, whatever commas, double quotes and newlines they hold.
C27_CsvRoundTrip ==
    returned.of = "objectToCSV" =>
        /\ Len(ReadCsv(returned.value)) = Len(rows) + 1
        /\ \A n \in 1..Len(rows) :
              ReadCsv(returned.value)[n + 1]
                = [k \in 1..Len(rows[n].cells) |-> rows[n].cells[k][2]]

\* the same for the values without a newline
C27_CsvRoundTripOneLine ==
    (returned.of = "objectToCSV"
     /\ \A k \in 1..Len(rows[1].cells[1][2]) :
           rows[1].cells[1][2][k] # NewLine) =>
        /\ Len(ReadCsv(returned.value)) = Len(rows) + 1
        /\ ReadCsv(returned.value)[2]
             = [k \in 1..Len(rows[1].cells) |-> rows[1].cells[k][2]]

\* C28: header normalisation.  Every key normalizeRow returns consists of
\* the characters a-z and 0-9 only, the values are untouched, "Lab Product
\* ID" becomes labproductid and "CaseId" becomes caseid; and normalising the
\* returned row once more returns it unchanged.
C28_NormalizeIdempotent ==
    /\ returned.of = "normalizeRow" =>
          /\ \A n \in 1..Len(returned.value.cells) :
                /\ \A k \in 1..Len(returned.value.cells[n][1]) :
                      \/ returned.value.cells[n][1][k] \in Digits
                      \/ \E c \in 1..Len(LowerCase) :
                            LowerCase[c] = returned.value.cells[n][1][k]
                /\ returned.value.cells[n][2] = rows[1].cells[n][2]
          /\ rows[1].cells[1][1] = <<"L", "a", "b", " ", "P", "r", "o", "d", "u", "c", "t", " ", "I", "D">>
                => returned.value.cells[1][1] = <<"l", "a", "b", "p", "r", "o", "d", "u", "c", "t", "i", "d">>
          /\ rows[1].cells[1][1] = <<"C", "a", "s", "e", "I", "d">>
                => returned.value.cells[1][1] = <<"c", "a", "s", "e", "i", "d">>
          /\ returned.value.cells[2][1] = <<"b">>
    /\ returned.of = "normalizeRow twice" =>
          returned.value.twice = returned.value.once

\* the row with the header "Lab Product ID" was normalised twice
C28_Witness ==
    /\ returned.of = "normalizeRow twice"
    /\ rows[1].cells[1][1] = <<"L", "a", "b", " ", "P", "r", "o", "d", "u", "c", "t", " ", "I", "D">>
    /\ returned.value.twice.cells[1][1] = <<"l", "a", "b", "p", "r", "o", "d", "u", "c", "t", "i", "d">>
    /\ returned.value.once.cells[1][1] = <<"l", "a", "b", "p", "r", "o", "d", "u", "c", "t", "i", "d">>

\* C29: source-file deletion is disabled.  A file processFile has
\* processed is still present in the source location, so the next listing
\* holds it again.
C29_SourceFileKept ==
    \A n \in 1..Len(results) :
        results[n].success => ListedKey(results[n].file) \in DOMAIN bucket

\* C24: graceful shutdown, part (a).  Once a shutdown signal has been
\* received, no call of processPipeline begins and no file is started:
\* no step taken after the signal is the first step of a call or of a file.
C24_NoStartAfterSignal ==
    [][shutdown = "closing" =>
          /\ run' = run
          /\ ~(pc = "file" /\ s3Calls' # s3Calls)]_vars

\* C25: graceful shutdown, part (b).  When the process has ended, no
\* transaction is open and no client is checked out: the transaction that
\* was open when the signal arrived was committed or rolled back and its
\* client released before.
C25_TransactionEndsBeforeExit ==
    shutdown \in {"exited", "crashed"} =>
        /\ conn.tx = "none"
        /\ checkedOut = 0

\* the same for the exit that follows the first signal
C25_PoolEndWaitsForClient ==
    shutdown = "exited" => (conn.tx = "none" /\ checkedOut = 0)

\* C31: pipelines.hasPipeline(name) returns true if and only if name is the
\* name of a registered pipeline.
C31_HasPipelineIffRegistered ==
    returned.of = "hasPipeline" =>
        (returned.value.result <=>
            \E n \in 1..Len(RegisteredNames) :
                RegisteredNames[n] = returned.value.name)

\* the latest finished call of processPipeline for the current pipeline
\* (0 when there is none)
PreviousCall ==
    LET calls == {n \in 1..Len(history) : history[n].pipeline = pipeline}
    IN  IF calls = {} THEN 0
        ELSE CHOOSE n \in calls : \A m \in calls : m <= n

Listed(fileName) == \E n \in 1..Len(listing) : listing[n] = fileName

\* C32: a file whose processing failed (not found, parse error, connection
\* failure, rolled-back transaction) is neither deleted nor moved: no
\* delete and no processed-file upload is issued for it, its object stays
\* in the source location, and the listing of the next call for the same
\* pipeline holds it again.
C32_FailedFileStays ==
    /\ \A n \in 1..Len(results) :
          ~results[n].success =>
              /\ ~Called("deleteFile", results[n].file)
              /\ ~Called("uploadProcessedFile", results[n].file)
              /\ ListedKey(results[n].file) \in DOMAIN bucket
    /\ (pc \notin {"idle", "pipeline", "exited"} /\ PreviousCall > 0) =>
          \A n \in 1..Len(history[PreviousCall].results) :
              ~history[PreviousCall].results[n].success =>
                  Listed(history[PreviousCall].results[n].file)

\* the second call for a pipeline lists the file whose transaction the
\* first call rolled back
C32_Witness ==
    /\ pc = "file"
    /\ run = 2
    /\ Len(history) = 1
    /\ history[1].pipeline = pipeline
    /\ \E n \in 1..Len(history[1].results) :
          /\ ~history[1].results[n].success
          /\ history[1].results[n].error = MapErrorMessage
          /\ Listed(history[1].results[n].file)
          /\ ListedKey(history[1].results[n].file) \in DOMAIN bucket

\* the source row carries a text in each of the six required columns
HasEveryRequiredColumn(row) ==
    \A n \in 1..Len(CSVprocessor_requiredFields) :
        Truthy(Property(normalizeRow(row), CSVprocessor_requiredFields[n]))

\* C33: the legacy CSVprocessor.processRows counts every row exactly once:
\* a row with no required field missing is inserted into the staging table
\* and counted in successCount, any other row is counted in errorCount, and
\* the two counts add up to the number of rows.
C33_LegacyCountsEveryRow ==
    pc = "legacyDone" =>
        /\ successCount + errorCount = Len(rows)
        /\ \A n \in 1..Len(rows) :
              (HasEveryRequiredColumn(rows[n]) /\ rows[n].fault = "none") =>
                  \E k \in 1..Len(stmts) :
                      stmts[k] = Stmt("INSERT", n, TRUE)
        /\ errorCount =
              Cardinality({n \in 1..Len(rows) :
                              \/ ~HasEveryRequiredColumn(rows[n])
                              \/ rows[n].fault = "db"})

\* the counts alone
C33_LegacyCountsAddUp ==
    pc = "legacyDone" => successCount + errorCount = Len(rows)

\* C34: whenever processRows returns normally, successCount + errorCount is
\* the number of input rows, validRows has successCount entries, errorRows
\* has errorCount entries, and every input row is in exactly one of
\* validRows and errorRows (as often as it occurs in the input).
C34_RowsPartitioned ==
    Returned =>
        /\ successCount + errorCount = Len(rows)
        /\ Len(validRows) = successCount
        /\ Len(errorRows) = errorCount
        /\ \A n \in 1..Len(rows) :
              CountWhere(rows, LAMBDA r : r = rows[n])
                = CountWhere(validRows, LAMBDA r : r = rows[n])
                  + CountWhere(errorRows, LAMBDA d : d.row = rows[n])
        /\ \A n \in 1..Len(rows) :
              IF InsertSucceeded(n)
              THEN \E k \in 1..Len(validRows) : validRows[k] = rows[n]
              ELSE \E k \in 1..Len(errorRows) : errorRows[k].row = rows[n]

\* processRows returned for two rows, one inserted and one refused
C34_Witness ==
    /\ Returned
    /\ Len(rows) = 2
    /\ successCount = 1
    /\ errorCount = 1
    /\ validRows # <<>>
    /\ errorRows # <<>>

\* the statements issued for row n, in the order of their issue
StatementsOfRow(n) == SelectSeq(stmts, LAMBDA st : st.row = n)

\* the statement sequence of a row whose insertRow has returned
PairedStatements(n) ==
    LET issued == StatementsOfRow(n) IN
    \/ issued = <<>>
    \/ /\ Len(issued) = 3
       /\ issued[1].op = "SAVEPOINT"
       /\ issued[2].op = "INSERT"
       /\ issued[3].op = IF issued[2].ok THEN "RELEASE" ELSE "ROLLBACK TO"

\* C35: savepoint discipline.  Within a file transaction at most one
\* savepoint is open at any time; every SAVEPOINT is followed by exactly one
\* RELEASE SAVEPOINT (insert succeeded) or ROLLBACK TO SAVEPOINT (insert
\* failed) before the next row starts; and no savepoint is open when
\* postProcess or COMMIT is issued.
C35_SavepointDiscipline ==
    /\ Len(conn.savepoints) <= 1
    /\ pc \in {"post", "commit"} => conn.savepoints = <<>>
    /\ (InFile /\ pc # "connect") =>
          \A n \in 1..Len(rows) :
              (n < RowNumber \/ pc \notin {"insert", "finish"})
                  => PairedStatements(n)

\* the statements alone: each finished row issued nothing, or SAVEPOINT,
\* INSERT and the one statement that answers the INSERT's outcome
C35_StatementsPaired ==
    (InFile /\ pc # "connect") =>
        \A n \in 1..Len(rows) :
            (n < RowNumber \/ pc \notin {"insert", "finish"})
                => PairedStatements(n)

\* the client of the current file has been given back to the pool
Released == checkedOut = 0 /\ stmts # <<>>

\* C36: a connection is never returned to the pool with a transaction still
\* open.  On every path of processRows on which BEGIN was issued, also when
\* COMMIT or ROLLBACK itself fails, the last statement before
\* client.release() is a COMMIT or ROLLBACK that succeeded, and the
\* transaction is over.
C36_ReleasedWithoutTransaction ==
    Released =>
        /\ conn.tx = "none"
        /\ Last(stmts).op \in {"COMMIT", "ROLLBACK"}
        /\ Last(stmts).ok

\* the same for the paths on which ROLLBACK does not fail
C36_ReleasedAfterRollback ==
    (Released /\ Last(stmts) # Stmt("ROLLBACK", 0, FALSE)) =>
        /\ conn.tx = "none"
        /\ Last(stmts).op \in {"COMMIT", "ROLLBACK"}
        /\ Last(stmts).ok

\* the transaction of a file of this call has committed
Committed(fileName) ==
    \E k \in 1..Len(results) :
        /\ results[k].file = fileName
        /\ results[k].success
        /\ ~results[k].skipped

\* C37: the orchestrator deletes a file from the source location only after
\* the file's transaction has committed and its log CSV has been uploaded to
\* the logs location: a delete call for a file implies both.
C37_DeleteAfterCommitAndLog ==
    \A n \in 1..Len(s3Calls) :
        s3Calls[n].op = "deleteFile" =>
            /\ Committed(s3Calls[n].file)
            /\ LogKey(s3Calls[n].file, getPipelinePaths(pipeline).logsPath,
                      run) \in DOMAIN bucket

\* the transaction alone: a delete call for a file implies its COMMIT
C37_DeleteAfterCommit ==
    \A n \in 1..Len(s3Calls) :
        s3Calls[n].op = "deleteFile" => Committed(s3Calls[n].file)

\* the S3 calls that upload an audit CSV
UploadCalls ==
    SelectSeq(s3Calls, LAMBDA call : call.op \in {"uploadProcessedFile",
                                                  "uploadLogFile"})

\* C38: processing a file without data rows checks out no database client,
\* issues no statement (no TRUNCATE either, also for a pipeline that
\* truncates), leaves every target table as it is, and uploads no processed
\* and no log CSV: the step that takes such a file from the queue changes
\* none of these and does not enter processRows.
C38_EmptyFileTouchesNothing ==
    [][(pc = "file" /\ queue # <<>> /\ HasNoDataRows(Head(queue))) =>
          /\ tables' = tables
          /\ checkedOut' = checkedOut
          /\ conn' = conn
          /\ stmts' = <<>>
          /\ pc' \in {"file", "idle", "pipeline"}
          /\ UploadCalls' = UploadCalls
          /\ DOMAIN bucket' = DOMAIN bucket]_vars

\* the truncating pipeline has skipped an empty file and its table still
\* holds the rows it held
C38_Witness ==
    /\ pipeline = "orders"
    /\ Len(results) = 1
    /\ results[1].success
    /\ results[1].skipped
    /\ tables["orders"] # <<>>
    /\ checkedOut = 0
    /\ stmts = <<>>
    /\ UploadCalls = <<>>

\* the rows the committed transaction of the current file added
AddedRows == Len(table) - Len(preTable)

\* C39: after a committed run of the upsert pipeline (product-catalog,
\* INSERT ... ON CONFLICT DO NOTHING) successCount is the number of rows the
\* run added to the target table, and every row of validRows, the content
\* of the processed CSV, was inserted by this run.
C39_SuccessCountIsRowsAdded ==
    (Returned /\ pipeline = "product-catalog") =>
        /\ successCount = AddedRows
        /\ \A n \in 1..Len(validRows) :
              \E m \in 1..Len(table) :
                  /\ table[m].key = mapRow(normalizeRow(validRows[n])).key
                  /\ table[m].run = run

\* the count is an upper bound of the rows added
C39_SuccessCountBoundsRowsAdded ==
    (Returned /\ pipeline = "product-catalog") =>
        (AddedRows >= 0 /\ AddedRows <= successCount)

\* the batch loop is over: postProcess and COMMIT are next, or the catch
\* block with its ROLLBACK
LoopLeft == pc \in {"loopDone", "loopFailed"}

\* C40: processRows terminates for every finite row list and every
\* configured batch size, also a zero, negative or non-numeric BATCH_SIZE:
\* the batch loop is left eventually, for postProcess and COMMIT or for the
\* rollback path.
C40_BatchLoopTerminates == <>LoopLeft

\* the same for the batch sizes above zero, which include the default that
\* a zero, empty or non-numeric BATCH_SIZE leads to
C40_PositiveBatchSizeTerminates == (batchSize > 0) ~> LoopLeft

\* a loop that was left has handled every row
C40_EveryRowHandled ==
    pc = "loopDone" => successCount + errorCount = Len(rows)

====
